---- MODULE Spec2Model ----
(***************************************************************************)
(* PyPlist: the plist node tree (tree.py), the tag namespace               *)
(* (namespace.py), the expat-driven tree builder (parser.py) and the       *)
(* converters between trees and native values (convert.py).                *)
(*                                                                         *)
(* Conventions of the model                                                *)
(*  - A Python str is a sequence of one-character strings, so that strip,  *)
(*    str(), int(), isoformat and base64 are computed character by         *)
(*    character.  Tags are TLA+ strings: the code only compares them.      *)
(*  - A PlistElement is a record [id, tag, text, children, dictitems].     *)
(*    id stands for the object's identity; elements the code creates       *)
(*    internally (the NSKey of a keyed assignment, the nodes of fromdict)  *)
(*    carry id 0.  dictitems holds Python's 0-based positions, children is *)
(*    a TLA+ sequence, so children[i + 1] is Python's _children[i].        *)
(*  - A native (Python) value is a record [type, b, n, s, q, keys, items]: *)
(*    type names the Python type and the other fields hold the payload     *)
(*    (b: bool, n: int or tenths of a float, s: str, q: bytes or the       *)
(*    fields of a date/datetime, keys/items: the entries of a dict/list).  *)
(*  - Every operation returns a record with an err field: "ok" or the name *)
(*    of the exception it raises.                                          *)
(***************************************************************************)
EXTENDS Integers, Sequences, FiniteSets, TLC

VARIABLES
    DEFAULT_KEY_IDS,    \* namespace.py: type name -> list of tags
    DEFAULT_KEYS,       \* namespace.py: flat list of every known tag
    dict_element,       \* tree API scenario: the NSDictionary under test
    lastOp,             \* tree API scenario: the last call and its outcome
    assigned,           \* tree API scenario: key -> id of the value last assigned
    _orderelementlist,  \* PlistXML: the stack of elements being built
    _validate_dicts,    \* PlistXML: the flag of this parse call
    pstate,             \* parse call: "idle", "parsing", "returned" or "raised"
    perr,               \* parse call: the exception raised, "ok" if none
    result,             \* parse call: the element returned
    created,            \* parse call: number of PlistElements created so far
    alphabet,           \* tokenizer: the tags and texts the document is made of
    budget,             \* tokenizer: StartTag and CharacterData events left
    docStack,           \* tokenizer: the elements of the document that are open
    doc,                \* tokenizer: the document's root element once closed
    csource,            \* conversion scenario: the native value given to fromdict
    cflags,             \* conversion scenario: validate_dicts and decode_data of todict
    cfirst,             \* conversion scenario: fromdict(source)
    cnative,            \* conversion scenario: todict(first)
    csecond,            \* conversion scenario: fromdict(native)
    cstate,             \* conversion scenario: "idle", "start", "built", "dumped", "rebuilt", "raised"
    cerr,               \* conversion scenario: the exception raised, "ok" if none
    candidate,          \* validator scenario: the element given to _dicterror
    verdict,            \* validator scenario: what _dicterror answered
    text_element,       \* attribute scenario: the element constructed, NoElement before
    textOp,             \* attribute scenario: the last construction or assignment
    subject,            \* index scenario: the element before the operation
    opArgs,             \* index scenario: the index and the value of the operation
    outcome,            \* index scenario: the operation, its error, the element after it
    newdefs,            \* namespace scenario: the argument of the last updatekeys
    dict_objects,       \* attribute scenario: the dict objects; the first is the
                        \* default of attribs in __init__
    attrib              \* attribute scenario: per element made, the dict object
                        \* its attrib names

namespaceVars == <<DEFAULT_KEY_IDS, DEFAULT_KEYS>>
treeVars == <<dict_element, lastOp, assigned>>
parserVars == <<_orderelementlist, _validate_dicts, pstate, perr, result, created>>
tokenizerVars == <<alphabet, budget, docStack, doc>>
convertVars == <<csource, cflags, cfirst, cnative, csecond, cstate, cerr>>
validatorVars == <<candidate, verdict>>
textVars == <<text_element, textOp, dict_objects, attrib>>
indexVars == <<subject, opArgs, outcome>>
mergeVars == <<newdefs>>
vars ==
    <<namespaceVars, treeVars, parserVars, tokenizerVars, convertVars, validatorVars,
      textVars, indexVars, mergeVars>>

Range(s) == {s[i] : i \in DOMAIN s}

\* ------------------------------------------------------------------------
\* namespace.py
\* ------------------------------------------------------------------------

InitialKeyIds ==
    [key |-> <<"key">>, string |-> <<"string">>, data |-> <<"data">>,
     dict |-> <<"dict">>, array |-> <<"array">>, int |-> <<"integer">>,
     true |-> <<"true">>, false |-> <<"false">>, float |-> <<"real">>,
     date |-> <<"date">>]

InitialKeys ==
    <<"key", "string", "data", "dict", "array", "integer",
      "true", "false", "real", "date">>

\* mutant of DictUpdate: the new tags are added to those of the kind
DictUpdate_Extend(ids, defs) ==
    [k \in DOMAIN ids \cup DOMAIN defs |->
        IF k \in DOMAIN defs
        THEN (IF k \in DOMAIN ids THEN ids[k] ELSE <<>>) \o defs[k]
        ELSE ids[k]]

\* DEFAULT_KEY_IDS.update(newdefs)
DictUpdate(ids, defs) ==
    [k \in DOMAIN ids \cup DOMAIN defs |-> IF k \in DOMAIN defs THEN defs[k] ELSE ids[k]]

\* the order of the keys of DEFAULT_KEY_IDS: the ten kinds it starts with,
\* then the kind "uid" if an update has added it
KindOrder(ids) ==
    <<"key", "string", "data", "dict", "array", "int", "true", "false", "float", "date">>
    \o (IF "uid" \in DOMAIN ids THEN <<"uid">> ELSE <<>>)

\* list(itt_chain(*DEFAULT_KEY_IDS.values()))
RECURSIVE Chain(_, _)
Chain(ids, order) ==
    IF order = <<>> THEN <<>> ELSE ids[Head(order)] \o Chain(ids, Tail(order))

\* updatekeys(newdefs): the namespace after the call
updatekeys(ids, defs) ==
    LET updated == DictUpdate(ids, defs)
    IN  [ids |-> updated, keys |-> Chain(updated, KindOrder(updated))]

\* `tag in DEFAULT_KEY_IDS[kind]`
InKind(tag, kind) == tag \in Range(DEFAULT_KEY_IDS[kind])

\* TYPE_TO_KEYNAME[type(v)]
TYPE_TO_KEYNAME(type) ==
    CASE type = "int" -> "int"
      [] type = "str" -> "string"
      [] type = "bytes" -> "data"
      [] type = "bytearray" -> "data"
      [] type = "float" -> "float"
      [] type = "date" -> "date"
      [] type = "datetime" -> "date"

\* ------------------------------------------------------------------------
\* Native (Python) values
\* ------------------------------------------------------------------------

NNone ==
    [type |-> "none", b |-> FALSE, n |-> 0, s |-> <<>>, q |-> <<>>,
     keys |-> <<>>, items |-> <<>>]
NBool(b) == [NNone EXCEPT !.type = "bool", !.b = b]
NInt(n) == [NNone EXCEPT !.type = "int", !.n = n]
\* a float with one decimal digit, held as its number of tenths
NFloat(tenths) == [NNone EXCEPT !.type = "float", !.n = tenths]
NStr(s) == [NNone EXCEPT !.type = "str", !.s = s]
NBytes(q) == [NNone EXCEPT !.type = "bytes", !.q = q]
NByteArray(q) == [NNone EXCEPT !.type = "bytearray", !.q = q]
\* q = <<year, month, day>>
NDate(q) == [NNone EXCEPT !.type = "date", !.q = q]
\* q = <<year, month, day, hour, minute, second>>
NDateTime(q) == [NNone EXCEPT !.type = "datetime", !.q = q]
NList(items) == [NNone EXCEPT !.type = "list", !.items = items]
\* a tuple, which fromdict does not take for a list
NTuple(items) == [NNone EXCEPT !.type = "tuple", !.items = items]
\* keys[i] is the str key of items[i], in insertion order
NDict(keys, items) == [NNone EXCEPT !.type = "dict", !.keys = keys, !.items = items]

\* ------------------------------------------------------------------------
\* Python built-ins the code calls: str.strip, str(), int(), float(),
\* isoformat / fromisoformat, b64encode / b64decode
\* ------------------------------------------------------------------------

Digits == <<"0", "1", "2", "3", "4", "5", "6", "7", "8", "9">>
IsDigit(c) == c \in Range(Digits)
DigitVal(c) == CHOOSE i \in 0..9 : Digits[i + 1] = c
IsSpace(c) == c \in {" ", "\n", "\t", "\r"}
AllDigits(s) == \A i \in DOMAIN s : IsDigit(s[i])

RECURSIVE LStrip(_)
LStrip(s) ==
    IF s # <<>> /\ IsSpace(Head(s)) THEN LStrip(Tail(s)) ELSE s

RECURSIVE RStrip(_)
RStrip(s) ==
    IF s # <<>> /\ IsSpace(s[Len(s)]) THEN RStrip(SubSeq(s, 1, Len(s) - 1)) ELSE s

\* mutant of Strip: only leading whitespace is removed
Strip_LeftOnly(s) == LStrip(s)

\* str.strip()
Strip(s) == RStrip(LStrip(s))

RECURSIVE NatToStr(_)
NatToStr(n) ==
    IF n < 10 THEN <<Digits[n + 1]>>
    ELSE NatToStr(n \div 10) \o <<Digits[(n % 10) + 1]>>

\* str(n) of an int
IntToStr(n) == IF n < 0 THEN <<"-">> \o NatToStr(-n) ELSE NatToStr(n)

\* str(x) of a float with one decimal digit: "2.5", "-0.1", "3.0"
FloatToStr(t) ==
    LET a == IF t < 0 THEN -t ELSE t
    IN  (IF t < 0 THEN <<"-">> ELSE <<>>)
            \o NatToStr(a \div 10) \o <<".">> \o <<Digits[(a % 10) + 1]>>

\* the number a string of digits denotes
RECURSIVE DigitsVal(_)
DigitsVal(s) ==
    IF s = <<>> THEN 0
    ELSE 10 * DigitsVal(SubSeq(s, 1, Len(s) - 1)) + DigitVal(s[Len(s)])

Unsigned(s) == IF s # <<>> /\ Head(s) \in {"-", "+"} THEN Tail(s) ELSE s
IsNegative(s) == s # <<>> /\ Head(s) = "-"

\* int(s) of a str: surrounding whitespace, one sign, decimal digits
StrToInt(s) ==
    LET t == Strip(s)
        u == Unsigned(t)
    IN  IF u # <<>> /\ AllDigits(u)
        THEN [err |-> "ok", val |-> IF IsNegative(t) THEN -DigitsVal(u) ELSE DigitsVal(u)]
        ELSE [err |-> "ValueError", val |-> 0]

DotAt(u) == IF \E i \in DOMAIN u : u[i] = "." THEN CHOOSE i \in DOMAIN u : u[i] = "." ELSE 0

\* whether float(s) accepts the str s: surrounding whitespace, one sign,
\* digits with at most one point and a digit on one side of it (exponents,
\* "inf" and "nan" need letters the model's texts do not spell)
FloatAccepts(s) ==
    LET u == Unsigned(Strip(s))
        d == DotAt(u)
        ip == IF d = 0 THEN u ELSE SubSeq(u, 1, d - 1)
        fp == IF d = 0 THEN <<>> ELSE SubSeq(u, d + 1, Len(u))
    IN  /\ AllDigits(ip)
        /\ AllDigits(fp)
        /\ ip \o fp # <<>>

\* float(s) of a str, as a number of tenths; a value with more decimal
\* digits than one is outside the model's floats
StrToFloat(s) ==
    LET t == Strip(s)
        u == Unsigned(t)
        d == DotAt(u)
        ip == IF d = 0 THEN u ELSE SubSeq(u, 1, d - 1)
        fp == IF d = 0 THEN <<>> ELSE SubSeq(u, d + 1, Len(u))
        mag == 10 * DigitsVal(ip) + (IF fp = <<>> THEN 0 ELSE DigitVal(fp[1]))
    IN  IF ~FloatAccepts(s) THEN [err |-> "ValueError", val |-> 0]
        ELSE IF \E i \in DOMAIN fp : i > 1 /\ fp[i] # "0"
             THEN [err |-> "Unmodelled", val |-> 0]
             ELSE [err |-> "ok", val |-> IF IsNegative(t) THEN -mag ELSE mag]

\* n as w digits, zero padded
RECURSIVE Pad(_, _)
Pad(n, w) == IF w = 0 THEN <<>> ELSE Pad(n \div 10, w - 1) \o <<Digits[(n % 10) + 1]>>

\* date.isoformat() / datetime.isoformat() (no microseconds, no tzinfo)
IsoFormat(q) ==
    LET day == Pad(q[1], 4) \o <<"-">> \o Pad(q[2], 2) \o <<"-">> \o Pad(q[3], 2)
    IN  IF Len(q) = 3 THEN day
        ELSE day \o <<"T">> \o Pad(q[4], 2) \o <<":">> \o Pad(q[5], 2)
                 \o <<":">> \o Pad(q[6], 2)

IsLeap(y) == (y % 4 = 0 /\ y % 100 # 0) \/ y % 400 = 0
DaysIn(y, m) ==
    IF m = 2 THEN (IF IsLeap(y) THEN 29 ELSE 28)
    ELSE IF m \in {4, 6, 9, 11} THEN 30 ELSE 31

\* "YYYY-MM-DD" naming a day of the calendar
IsIsoDay(s) ==
    /\ Len(s) = 10
    /\ s[5] = "-" /\ s[8] = "-"
    /\ AllDigits(SubSeq(s, 1, 4)) /\ AllDigits(SubSeq(s, 6, 7)) /\ AllDigits(SubSeq(s, 9, 10))
    /\ DigitsVal(SubSeq(s, 1, 4)) >= 1
    /\ DigitsVal(SubSeq(s, 6, 7)) \in 1..12
    /\ DigitsVal(SubSeq(s, 9, 10)) \in 1..DaysIn(DigitsVal(SubSeq(s, 1, 4)), DigitsVal(SubSeq(s, 6, 7)))

IsoDay(s) == <<DigitsVal(SubSeq(s, 1, 4)), DigitsVal(SubSeq(s, 6, 7)), DigitsVal(SubSeq(s, 9, 10))>>

\* "HH", "HH:MM" or "HH:MM:SS"
IsIsoTime(s) ==
    /\ Len(s) \in {2, 5, 8}
    /\ \A i \in DOMAIN s : IF i \in {3, 6} THEN s[i] = ":" ELSE IsDigit(s[i])
    /\ DigitsVal(SubSeq(s, 1, 2)) \in 0..23
    /\ Len(s) >= 5 => DigitsVal(SubSeq(s, 4, 5)) \in 0..59
    /\ Len(s) >= 8 => DigitsVal(SubSeq(s, 7, 8)) \in 0..59

IsoTime(s) ==
    <<DigitsVal(SubSeq(s, 1, 2)),
      IF Len(s) >= 5 THEN DigitsVal(SubSeq(s, 4, 5)) ELSE 0,
      IF Len(s) >= 8 THEN DigitsVal(SubSeq(s, 7, 8)) ELSE 0>>

\* mutant of dateobj: datetime.fromisoformat is tried first
dateobj_DateTimeFirst(source) ==
    IF IsIsoDay(source)
    THEN [err |-> "ok", val |-> NDateTime(IsoDay(source) \o <<0, 0, 0>>)]
    ELSE IF /\ Len(source) >= 13
            /\ IsIsoDay(SubSeq(source, 1, 10))
            /\ IsIsoTime(SubSeq(source, 12, Len(source)))
         THEN [err |-> "ok",
               val |-> NDateTime(IsoDay(SubSeq(source, 1, 10))
                                    \o IsoTime(SubSeq(source, 12, Len(source))))]
         ELSE [err |-> "ValueError", val |-> NNone]

\* tree.py dateobj: date.fromisoformat first, datetime.fromisoformat second
dateobj(source) ==
    IF IsIsoDay(source) THEN [err |-> "ok", val |-> NDate(IsoDay(source))]
    ELSE IF /\ Len(source) >= 13
            /\ IsIsoDay(SubSeq(source, 1, 10))
            /\ IsIsoTime(SubSeq(source, 12, Len(source)))
         THEN [err |-> "ok",
               val |-> NDateTime(IsoDay(SubSeq(source, 1, 10))
                                    \o IsoTime(SubSeq(source, 12, Len(source))))]
         ELSE [err |-> "ValueError", val |-> NNone]

B64Alphabet ==
    <<
      "A", "B", "C", "D", "E", "F", "G", "H", "I", "J", "K", "L", "M", "N", "O", "P",
      "Q", "R", "S", "T", "U", "V", "W", "X", "Y", "Z", "a", "b", "c", "d", "e", "f",
      "g", "h", "i", "j", "k", "l", "m", "n", "o", "p", "q", "r", "s", "t", "u", "v",
      "w", "x", "y", "z", "0", "1", "2", "3", "4", "5", "6", "7", "8", "9", "+", "/"
    >>

B64Char(v) == B64Alphabet[v + 1]
IsB64Char(c) == c \in Range(B64Alphabet)
B64Val(c) == CHOOSE v \in 0..63 : B64Alphabet[v + 1] = c

\* base64.b64encode(q).decode("ASCII") of a sequence of bytes
RECURSIVE b64encode(_)
b64encode(q) ==
    IF q = <<>> THEN <<>>
    ELSE IF Len(q) = 1
         THEN <<B64Char(q[1] \div 4), B64Char((q[1] % 4) * 16), "=", "=">>
    ELSE IF Len(q) = 2
         THEN <<B64Char(q[1] \div 4), B64Char((q[1] % 4) * 16 + q[2] \div 16),
                B64Char((q[2] % 16) * 4), "=">>
    ELSE <<B64Char(q[1] \div 4), B64Char((q[1] % 4) * 16 + q[2] \div 16),
           B64Char((q[2] % 16) * 4 + q[3] \div 64), B64Char(q[3] % 64)>>
            \o b64encode(SubSeq(q, 4, Len(q)))

\* parser.py _b64check:
\* ^([A-Za-z0-9+/]{4})*([A-Za-z0-9+/]{3}=|[A-Za-z0-9+/]{2}==)?$
b64check(s) ==
    /\ Len(s) % 4 = 0
    /\ \A i \in DOMAIN s :
          \/ IsB64Char(s[i])
          \/ s[i] = "=" /\ i = Len(s)
          \/ s[i] = "=" /\ i = Len(s) - 1 /\ s[Len(s)] = "="

\* base64.b64decode(s) of a str in canonical form; anything else is
\* binascii.Error (the library's skipping of foreign characters is not modelled)
RECURSIVE b64decode(_)
b64decode(s) ==
    IF ~b64check(s) THEN [err |-> "binascii.Error", val |-> <<>>]
    ELSE IF s = <<>> THEN [err |-> "ok", val |-> <<>>]
    ELSE LET a == B64Val(s[1])
             b == B64Val(s[2])
             one == <<a * 4 + b \div 16>>
         IN  IF s[3] = "=" THEN [err |-> "ok", val |-> one]
             ELSE LET c == B64Val(s[3])
                      two == one \o <<(b % 16) * 16 + c \div 4>>
                  IN  IF s[4] = "=" THEN [err |-> "ok", val |-> two]
                      ELSE [err |-> "ok",
                            val |-> two \o <<(c % 4) * 64 + B64Val(s[4])>>
                                        \o b64decode(SubSeq(s, 5, Len(s))).val]

\* ------------------------------------------------------------------------
\* tree.py
\* ------------------------------------------------------------------------

\* a PlistElement right after __init__ has set _dictitems, _children and tag;
\* text reads as the class attribute ''
Element(id, tag) ==
    [id |-> id, tag |-> tag, text |-> <<>>, children |-> <<>>, dictitems |-> <<>>]

\* stands where a call raised and returned no element
NoElement == Element(-1, "")

\* mutant of isbool: only the tags of true are looked up
isbool_TrueOnly(element) ==
    element.tag \in Range(DEFAULT_KEY_IDS["true"])

isbool(element) ==
    element.tag \in Range(DEFAULT_KEY_IDS["true"] \o DEFAULT_KEY_IDS["false"])

isdirectory(element) ==
    element.tag \in Range(DEFAULT_KEY_IDS["array"] \o DEFAULT_KEY_IDS["dict"])

\* `value in (None, '')`
IsBlankValue(value) ==
    value.type = "none" \/ (value.type = "str" /\ value.s = <<>>)

\* str(value) of an int, float, bool or str
PyStr(value) ==
    CASE value.type = "int" -> IntToStr(value.n)
      [] value.type = "float" -> FloatToStr(value.n)
      [] value.type = "bool" -> IF value.b THEN <<"T", "r", "u", "e">>
                                          ELSE <<"F", "a", "l", "s", "e">>
      [] value.type = "str" -> value.s

\* PlistElement.__setattr__('text', value)
SetText(self, value) ==
    \* None is stored as it is; the empty text stands for it here
    IF IsBlankValue(value) THEN [err |-> "ok", node |-> [self EXCEPT !.text = <<>>]]
    ELSE IF isdirectory(self) \/ isbool(self)
         THEN [err |-> "SyntaxError", node |-> self]
    ELSE IF InKind(self.tag, "date")
         THEN IF value.type \in {"date", "datetime"}
              THEN [err |-> "ok", node |-> [self EXCEPT !.text = IsoFormat(value.q)]]
              ELSE [err |-> "ValueError", node |-> self]
    ELSE IF self.tag \in Range(DEFAULT_KEY_IDS["int"] \o DEFAULT_KEY_IDS["float"])
         THEN IF value.type \notin {"int", "bool", "float", "str"}
              THEN [err |-> "ValueError", node |-> self]
              ELSE IF value.type = "str" /\ ~FloatAccepts(value.s)
                   THEN [err |-> "ValueError", node |-> self]
                   ELSE [err |-> "ok", node |-> [self EXCEPT !.text = PyStr(value)]]
    ELSE IF InKind(self.tag, "data")
         THEN IF value.type \in {"bytes", "bytearray"}
              THEN [err |-> "ok", node |-> [self EXCEPT !.text = b64encode(value.q)]]
              ELSE [err |-> "ValueError", node |-> self]
    ELSE IF value.type = "str"
         THEN [err |-> "ok", node |-> [self EXCEPT !.text = value.s]]
         \* the code stores a non-str object as it is; texts are str here
         ELSE [err |-> "Unmodelled", node |-> self]

\* mutant of SetTag: the attribute is stored like any other
SetTag_Stores(self, value) == [err |-> "ok", node |-> [self EXCEPT !.tag = value.s[1]]]

\* PlistElement.__setattr__('tag', value)
SetTag(self, value) == [err |-> "AttributeError", node |-> self]

\* mutant of PlistElement: the text is set for a parsed element as well
PlistElement_ParsedText(id, PLIST_TAG, text, parsedobj) ==
    IF PLIST_TAG \notin Range(DEFAULT_KEYS) THEN [err |-> "ValueError", node |-> NoElement]
    ELSE LET r == SetText(Element(id, PLIST_TAG), text)
         IN  IF r.err = "ok" THEN r ELSE [err |-> r.err, node |-> NoElement]

\* PlistElement(PLIST_TAG, text, parsedobj=parsedobj); attribs is a dict
PlistElement(id, PLIST_TAG, text, parsedobj) ==
    IF PLIST_TAG \notin Range(DEFAULT_KEYS) THEN [err |-> "ValueError", node |-> NoElement]
    ELSE IF parsedobj THEN [err |-> "ok", node |-> Element(id, PLIST_TAG)]
    ELSE LET r == SetText(Element(id, PLIST_TAG), text)
         IN  IF r.err = "ok" THEN r ELSE [err |-> r.err, node |-> NoElement]

\* PlistElement.__init__ with attribs given: the tag is looked up first, then
\* attribs must be a dict, then the element is set up as above
__init__(id, PLIST_TAG, text, attribs, parsedobj) ==
    IF PLIST_TAG \notin Range(DEFAULT_KEYS) THEN [err |-> "ValueError", node |-> NoElement]
    ELSE IF attribs.type # "dict" THEN [err |-> "ValueError", node |-> NoElement]
    ELSE PlistElement(id, PLIST_TAG, text, parsedobj)

\* Python list indexing: the 1-based position list[i] denotes, 0 if none
ListPos(len, i) ==
    IF 0 <= i /\ i < len THEN i + 1
    ELSE IF i < 0 /\ -len <= i THEN len + i + 1
    ELSE 0

RemoveAt(s, p) == SubSeq(s, 1, p - 1) \o SubSeq(s, p + 1, Len(s))

\* mutant of IsIntIndex: a float is taken for a position as well
IsIntIndex_AnyNumber(index) == index.type \in {"int", "bool", "float"}

IsIntIndex(index) == index.type \in {"int", "bool"}
IntIndex(index) == IF index.type = "bool" THEN (IF index.b THEN 1 ELSE 0) ELSE index.n

\* PlistElement.__getitem__
__getitem__(self, index) ==
    IF ~isdirectory(self) THEN [err |-> "SyntaxError", val |-> NoElement]
    ELSE IF IsIntIndex(index)
         THEN IF InKind(self.tag, "dict") THEN [err |-> "ValueError", val |-> NoElement]
              ELSE LET p == ListPos(Len(self.children), IntIndex(index))
                   IN  IF p = 0 THEN [err |-> "IndexError", val |-> NoElement]
                       ELSE [err |-> "ok", val |-> self.children[p]]
    ELSE IF index.type = "str"
         THEN IF InKind(self.tag, "array") THEN [err |-> "ValueError", val |-> NoElement]
              ELSE IF index.s \notin DOMAIN self.dictitems
                   THEN [err |-> "KeyError", val |-> NoElement]
                   ELSE LET p == ListPos(Len(self.children), self.dictitems[index.s])
                        IN  IF p = 0 THEN [err |-> "IndexError", val |-> NoElement]
                            ELSE [err |-> "ok", val |-> self.children[p]]
    ELSE [err |-> "ValueError", val |-> NoElement]

\* mutant of PutItem: the key is linked to the position after the value
PutItem_PositionAfter(dictitems, key, position) ==
    [k \in DOMAIN dictitems \cup {key} |-> IF k = key THEN position + 1 ELSE dictitems[k]]

\* dict[key] = position
PutItem(dictitems, key, position) ==
    [k \in DOMAIN dictitems \cup {key} |-> IF k = key THEN position ELSE dictitems[k]]

\* dict.pop(key)
DropItem(dictitems, key) ==
    [k \in DOMAIN dictitems \ {key} |-> dictitems[k]]

\* mutant of AppendKeyValue: the value is appended before its NSKey
AppendKeyValue_ValueFirst(self, key, name, value) ==
    LET grown == self.children \o <<value, key>>
    IN  [self EXCEPT !.children = grown,
                     !.dictitems = PutItem(@, name, Len(grown) - 1)]

\* __setitem__, `except KeyError`: the new NSKey and the value are appended
\* and the key is linked to the position of the value
AppendKeyValue(self, key, name, value) ==
    LET grown == self.children \o <<key, value>>
    IN  [self EXCEPT !.children = grown,
                     !.dictitems = PutItem(@, name, Len(grown) - 1)]

\* PlistElement.__setitem__
__setitem__(self, index, value) ==
    IF ~isdirectory(self) THEN [err |-> "SyntaxError", node |-> self]
    ELSE IF IsIntIndex(index)
         THEN IF InKind(self.tag, "dict") THEN [err |-> "ValueError", node |-> self]
              ELSE LET p == ListPos(Len(self.children), IntIndex(index))
                   IN  IF p = 0 THEN [err |-> "IndexError", node |-> self]
                       ELSE [err |-> "ok", node |-> [self EXCEPT !.children[p] = value]]
    ELSE IF index.type = "str"
         THEN IF InKind(self.tag, "array") THEN [err |-> "ValueError", node |-> self]
              ELSE IF index.s \in DOMAIN self.dictitems
                   THEN LET p == ListPos(Len(self.children), self.dictitems[index.s])
                        IN  IF p = 0 THEN [err |-> "IndexError", node |-> self]
                            ELSE [err |-> "ok", node |-> [self EXCEPT !.children[p] = value]]
                   ELSE \* except KeyError: a new NSKey, then the value
                        IF DEFAULT_KEY_IDS["key"] = <<>>
                        THEN [err |-> "IndexError", node |-> self]
                        ELSE LET key == PlistElement(0, DEFAULT_KEY_IDS["key"][1], index, FALSE)
                             IN  IF key.err # "ok" THEN [err |-> key.err, node |-> self]
                                 ELSE [err |-> "ok",
                                       node |-> AppendKeyValue(self, key.node, index.s, value)]
    ELSE [err |-> "ValueError", node |-> self]

\* the argument of append: one PlistElement, a list/tuple of them, or an
\* object of another type
OneElement(e) == [kind |-> "element", elems |-> <<e>>]
ElementList(es) == [kind |-> "list", elems |-> es]
NotElements == [kind |-> "other", elems |-> <<>>]

\* mutant of iter: the element itself comes after its sub-nodes
RECURSIVE IterChildrenLast(_, _, _)
IterChildrenLast(children, i, tag) ==
    IF i > Len(children) THEN <<>>
    ELSE LET e == children[i]
             own == IF tag.type = "none" \/ tag = NStr(<<e.tag>>) THEN <<e>> ELSE <<>>
         IN  IterChildrenLast(e.children, 1, tag) \o own
                 \o IterChildrenLast(children, i + 1, tag)

iter_SelfLast(self, tag) ==
    LET t == IF tag = NStr(<<"*">>) THEN NNone ELSE tag
        own == IF t.type = "none" \/ t = NStr(<<self.tag>>) THEN <<self>> ELSE <<>>
    IN  IterChildrenLast(self.children, 1, t) \o own

\* PlistElement.iter(tag), the generator run to its end: a tag is the str
\* of one item; `self.tag == tag` is False for what is not a str
RECURSIVE iter(_, _)

\* `for e in self._children: yield from e.iter(tag)`, from child i on
RECURSIVE IterChildren(_, _, _)
IterChildren(children, i, tag) ==
    IF i > Len(children) THEN <<>>
    ELSE iter(children[i], tag) \o IterChildren(children, i + 1, tag)

iter(self, tag) ==
    LET t == IF tag = NStr(<<"*">>) THEN NNone ELSE tag
        own == IF t.type = "none" \/ t = NStr(<<self.tag>>) THEN <<self>> ELSE <<>>
    IN  own \o IterChildren(self.children, 1, t)

\* mutant of append: the new elements are put before the children
append_AtFront(self, value) ==
    IF ~InKind(self.tag, "array") THEN [err |-> "SyntaxError", node |-> self]
    ELSE IF value.kind \notin {"element", "list"} THEN [err |-> "ValueError", node |-> self]
    ELSE [err |-> "ok", node |-> [self EXCEPT !.children = value.elems \o @]]

\* PlistElement.append
append(self, value) ==
    IF ~InKind(self.tag, "array") THEN [err |-> "SyntaxError", node |-> self]
    ELSE IF value.kind \notin {"element", "list"} THEN [err |-> "ValueError", node |-> self]
    ELSE [err |-> "ok", node |-> [self EXCEPT !.children = @ \o value.elems]]

\* PlistElement.pop
pop(self, index) ==
    IF IsIntIndex(index)
    THEN IF ~InKind(self.tag, "array") THEN [err |-> "ValueError", node |-> self]
         ELSE LET p == ListPos(Len(self.children), IntIndex(index))
              IN  IF p = 0 THEN [err |-> "IndexError", node |-> self]
                  ELSE [err |-> "ok", node |-> [self EXCEPT !.children = RemoveAt(@, p)]]
    ELSE IF index.type = "str"
    THEN IF ~InKind(self.tag, "dict") THEN [err |-> "ValueError", node |-> self]
         ELSE IF index.s \notin DOMAIN self.dictitems
              THEN [err |-> "KeyError", node |-> self]
              ELSE LET i == self.dictitems[index.s]
                       p == ListPos(Len(self.children), i)
                       \* del self._children[self._dictitems[index]]
                       first == RemoveAt(self.children, p)
                       q == ListPos(Len(first), i - 1)
                   IN  IF p = 0 THEN [err |-> "IndexError", node |-> self]
                       ELSE IF q = 0
                            THEN [err |-> "IndexError",
                                  node |-> [self EXCEPT !.children = first]]
                            ELSE [err |-> "ok",
                                  node |-> [self EXCEPT
                                      \* del self._children[self._dictitems[index] - 1]
                                      !.children = RemoveAt(first, q),
                                      \* self._dictitems.pop(index)
                                      !.dictitems = DropItem(@, index.s)]]
    ELSE [err |-> "ValueError", node |-> self]

\* ------------------------------------------------------------------------
\* parser.py
\* ------------------------------------------------------------------------

\* list[::2] and list[1::2]
EvenSlice(s) == [i \in 1..((Len(s) + 1) \div 2) |-> s[2 * i - 1]]
OddSlice(s) == [i \in 1..(Len(s) \div 2) |-> s[2 * i]]

\* mutant of _dicterror: the values are not looked at
_dicterror_KeysOnly(element) ==
    IF ~InKind(element.tag, "dict") THEN [err |-> "ValueError", val |-> FALSE]
    ELSE IF Len(element.children) = 0 THEN [err |-> "ok", val |-> FALSE]
    ELSE LET keys == EvenSlice(element.children)
             values == OddSlice(element.children)
             validks == \A i \in DOMAIN keys : InKind(keys[i].tag, "key")
         IN  IF Len(keys) # Len(values) THEN [err |-> "ok", val |-> TRUE]
             ELSE [err |-> "ok", val |-> ~validks]

\* _dicterror: val is TRUE when the NSDictionary is not valid
_dicterror(element) ==
    IF ~InKind(element.tag, "dict") THEN [err |-> "ValueError", val |-> FALSE]
    ELSE IF Len(element.children) = 0 THEN [err |-> "ok", val |-> FALSE]
    ELSE LET keys == EvenSlice(element.children)
             values == OddSlice(element.children)
             validks == \A i \in DOMAIN keys : InKind(keys[i].tag, "key")
             validvs == \A i \in DOMAIN values : ~InKind(values[i].tag, "key")
         IN  IF Len(keys) # Len(values) THEN [err |-> "ok", val |-> TRUE]
             ELSE [err |-> "ok", val |-> ~validks \/ ~validvs]

\* str.replace('"', '\\"'): a str is a sequence of characters, and a piece
\* of text the code writes out as a whole stands as one item of it
RECURSIVE EscapeQuotes(_)
EscapeQuotes(v) ==
    IF v = <<>> THEN <<>>
    ELSE (IF Head(v) = "\"" THEN <<"\\\"">> ELSE <<Head(v)>>) \o EscapeQuotes(Tail(v))

\* _dictattrstoxml, the join over input.items() from entry i on
RECURSIVE JoinAttrs(_, _)
JoinAttrs(input, i) ==
    IF i > Len(input.keys) THEN <<>>
    ELSE <<" ">> \o input.keys[i] \o <<"=\"">> \o EscapeQuotes(input.items[i].s)
             \o <<"\"">> \o JoinAttrs(input, i + 1)

\* the same join with the values written as they are
RECURSIVE JoinAttrsRaw(_, _)
JoinAttrsRaw(input, i) ==
    IF i > Len(input.keys) THEN <<>>
    ELSE <<" ">> \o input.keys[i] \o <<"=\"">> \o input.items[i].s
             \o <<"\"">> \o JoinAttrsRaw(input, i + 1)

\* mutant of _dictattrstoxml: the double quotes of a value are not escaped
_dictattrstoxml_Unescaped(input) ==
    IF input.keys = <<>> THEN <<>> ELSE JoinAttrsRaw(input, 1)

\* _dictattrstoxml
_dictattrstoxml(input) ==
    IF input.keys = <<>> THEN <<>> ELSE JoinAttrs(input, 1)

\* mutant of Lower: the tag is compared as it is written
Lower_AsWritten(tag) == tag

\* tag.lower(), for the spellings the documents use
Lower(tag) ==
    CASE tag \in {"plist", "PLIST", "Plist"} -> "plist"
      [] OTHER -> tag

\* list.index(obj) + 1 for an object in the list: objects compare by identity
IndexOf(children, obj) ==
    CHOOSE p \in DOMAIN children :
        /\ children[p].id = obj.id
        /\ \A q \in 1..(p - 1) : children[q].id # obj.id

\* PlistXML._start: the stack after StartTag(tag)
_start(stack, id, tag) ==
    IF Lower(tag) = "plist" THEN [err |-> "ok", stack |-> stack]
    ELSE LET e == PlistElement(id, tag, NStr(<<>>), TRUE)
         IN  IF e.err # "ok" THEN [err |-> e.err, stack |-> stack]
             ELSE [err |-> "ok", stack |-> Append(stack, e.node)]

\* mutant of Attach: the closed element is appended to the element below it
\* but stays on the stack
Attach_NoPop(stack) ==
    IF Len(stack) > 1
    THEN [stack EXCEPT ![Len(stack) - 1].children = Append(@, stack[Len(stack)])]
    ELSE stack

\* _end, lines 104-115: the closed element becomes the last child of the
\* element below it; an NSKey closed inside an NSDictionary is linked to the
\* position after its own
Attach(stack) ==
    IF Len(stack) > 1
    THEN LET tmpobj == stack[Len(stack)]
             rest == SubSeq(stack, 1, Len(stack) - 1)
             parent == rest[Len(rest)]
             grown == [parent EXCEPT !.children = Append(@, tmpobj)]
             linked ==
                 IF InKind(parent.tag, "dict") /\ InKind(tmpobj.tag, "key")
                 THEN [grown EXCEPT !.dictitems =
                          PutItem(@, tmpobj.text, (IndexOf(grown.children, tmpobj) - 1) + 1)]
                 ELSE grown
         IN  [rest EXCEPT ![Len(rest)] = linked]
    ELSE stack

\* PlistXML._end: the stack after EndTag(tag)
_end(stack, validate_dicts, tag) ==
    IF InKind(tag, "dict") /\ validate_dicts
    THEN IF stack = <<>> THEN [err |-> "IndexError", stack |-> stack]
         ELSE LET bad == _dicterror(stack[Len(stack)])
              IN  IF bad.err # "ok" THEN [err |-> bad.err, stack |-> stack]
                  ELSE IF bad.val THEN [err |-> "SyntaxError", stack |-> stack]
                  ELSE [err |-> "ok", stack |-> Attach(stack)]
    ELSE [err |-> "ok", stack |-> Attach(stack)]

\* PlistXML._data: the stack after CharacterData(data)
_data(stack, raw) ==
    LET data == Strip(raw)
    IN  IF data = <<>> THEN [err |-> "ok", stack |-> stack]
        ELSE IF stack = <<>> THEN [err |-> "IndexError", stack |-> stack]
        ELSE LET target == stack[Len(stack)]
                 set ==
                     IF InKind(target.tag, "date")
                     THEN LET parsed == dateobj(data)
                          IN  IF parsed.err # "ok" THEN [err |-> parsed.err, node |-> target]
                              ELSE SetText(target, parsed.val)
                     ELSE IF InKind(target.tag, "data")
                     THEN IF ~b64check(data) THEN [err |-> "ValueError", node |-> target]
                          \* object.__setattr__: no check by kind
                          ELSE [err |-> "ok", node |-> [target EXCEPT !.text = data]]
                     ELSE SetText(target, NStr(data))
             IN  [err |-> set.err, stack |-> [stack EXCEPT ![Len(stack)] = set.node]]

\* mutant of except_expat_error: the exception is left as it is
except_expat_error_Passed(e) == e

\* PlistXML.parse, lines 71-72, and parsefile, lines 82-83: what leaves the
\* try for an exception e raised under Parse; only expat_error is caught
except_expat_error(e) == IF e = "expat_error" THEN "SyntaxError" ELSE e

\* PlistXML.parse, line 75: `return self._orderelementlist[0]`
ReturnRoot(stack) ==
    IF stack = <<>> THEN [err |-> "IndexError", val |-> NoElement]
    ELSE [err |-> "ok", val |-> stack[1]]

\* ------------------------------------------------------------------------
\* convert.py
\* ------------------------------------------------------------------------

\* root[key] = value on a native dict: a known key keeps its place
DictPut(root, key, value) ==
    IF \E i \in DOMAIN root.keys : root.keys[i] = key
    THEN LET i == CHOOSE i \in DOMAIN root.keys : root.keys[i] = key
         IN  [root EXCEPT !.items[i] = value]
    ELSE [root EXCEPT !.keys = Append(@, key), !.items = Append(@, value)]

RECURSIVE todict(_, _, _)

\* todict, lines 116-126 and 132-141: the native value of one child
NativeOf(e, validate_dicts, decode_data) ==
    IF isdirectory(e) THEN todict(e, validate_dicts, decode_data)
    ELSE IF decode_data /\ InKind(e.tag, "data")
         THEN LET r == b64decode(e.text)
              IN  [err |-> r.err, val |-> NBytes(r.val)]
    ELSE IF InKind(e.tag, "int")
         THEN LET r == StrToInt(e.text)
              IN  [err |-> r.err, val |-> NInt(r.val)]
    ELSE IF InKind(e.tag, "float")
         THEN LET r == StrToFloat(e.text)
              IN  [err |-> r.err, val |-> NFloat(r.val)]
    ELSE IF InKind(e.tag, "date") THEN dateobj(e.text)
    ELSE IF isbool(e) THEN [err |-> "ok", val |-> NBool(InKind(e.tag, "true"))]
    ELSE [err |-> "ok", val |-> NStr(e.text)]

\* todict, lines 113-126: `for k, v in zip(keys, values)` from pair i on
RECURSIVE DictEntries(_, _, _, _, _, _)
DictEntries(root, keys, values, i, validate_dicts, decode_data) ==
    IF i > Len(keys) \/ i > Len(values) THEN [err |-> "ok", val |-> root]
    ELSE LET r == NativeOf(values[i], validate_dicts, decode_data)
         IN  IF r.err # "ok" THEN [err |-> r.err, val |-> NNone]
             ELSE DictEntries(DictPut(root, keys[i].text, r.val), keys, values, i + 1,
                              validate_dicts, decode_data)

\* todict, lines 131-141: `for e in element._children` from child i on
RECURSIVE ListEntries(_, _, _, _, _)
ListEntries(root, children, i, validate_dicts, decode_data) ==
    IF i > Len(children) THEN [err |-> "ok", val |-> root]
    ELSE LET r == NativeOf(children[i], validate_dicts, decode_data)
         IN  IF r.err # "ok" THEN [err |-> r.err, val |-> NNone]
             ELSE ListEntries([root EXCEPT !.items = Append(@, r.val)], children, i + 1,
                              validate_dicts, decode_data)

todict(element, validate_dicts, decode_data) ==
    IF InKind(element.tag, "dict")
    THEN IF validate_dicts /\ _dicterror(element).val
         THEN [err |-> "AssertionError", val |-> NNone]
         ELSE DictEntries(NDict(<<>>, <<>>), EvenSlice(element.children),
                          OddSlice(element.children), 1, validate_dicts, decode_data)
    ELSE IF InKind(element.tag, "array")
    THEN ListEntries(NList(<<>>), element.children, 1, validate_dicts, decode_data)
    ELSE [err |-> "ok", val |-> NList(<<NStr(element.text)>>)]

\* ElementTree's _escape_cdata: &, < and > of a text become entities
RECURSIVE _escape_cdata(_)
_escape_cdata(text) ==
    IF text = <<>> THEN <<>>
    ELSE (CASE Head(text) = "&" -> <<"&amp;">>
            [] Head(text) = "<" -> <<"&lt;">>
            [] Head(text) = ">" -> <<"&gt;">>
            [] OTHER -> <<Head(text)>>) \o _escape_cdata(Tail(text))

RECURSIVE etree_tostring(_, _)

\* ElementTree's _serialize_xml, `for e in elem` from child i on
RECURSIVE SerializeChildren(_, _, _)
SerializeChildren(children, i, short_empty_elements) ==
    IF i > Len(children) THEN <<>>
    ELSE etree_tostring(children[i], short_empty_elements)
             \o SerializeChildren(children, i + 1, short_empty_elements)

\* xml.etree.ElementTree.tostring(element, encoding='unicode',
\* short_empty_elements=...) as tostring calls it: the start tag, then the
\* text and the children between '>' and the end tag, or ' />' for an element
\* with neither when short_empty_elements is set; the elements carry no
\* attributes and no tail
etree_tostring(elem, short_empty_elements) ==
    <<"<", elem.tag>>
    \o (IF elem.text # <<>> \/ Len(elem.children) > 0 \/ ~short_empty_elements
        THEN <<">">> \o _escape_cdata(elem.text)
                 \o SerializeChildren(elem.children, 1, short_empty_elements)
                 \o <<"</", elem.tag, ">">>
        ELSE <<" />">>)

\* tostring
tostring(element, plist_attrs, xml_declaration, short_empty_elements) ==
    LET plist_header == <<"<plist">> \o _dictattrstoxml(plist_attrs) \o <<">">>
        raw_content == etree_tostring(element, short_empty_elements)
        declaration ==
            IF xml_declaration = "ver" THEN <<"<?xml version=\"1.0\"?>">>
            ELSE IF xml_declaration = "enc"
                 THEN <<"<?xml version=\"1.0\" encoding=\"UTF-8\"?>">>
            ELSE <<>>
    IN  declaration \o plist_header \o raw_content \o <<"</plist>">>

\* mutant of KindOf: the bool check is missing, a bool is taken for the int it
\* also is
KindOf_BoolAsInt(v) ==
    IF v.type = "bool" THEN "int" ELSE TYPE_TO_KEYNAME(v.type)

\* fromdict, lines 221-227: the type name of a scalar, bool before int
KindOf(v) ==
    IF v.type = "bool" THEN (IF v.b THEN "true" ELSE "false")
    ELSE TYPE_TO_KEYNAME(v.type)

RECURSIVE fromdict(_)

\* mutant of ElementOf: the last tag of the kind is taken, not the first
ElementOf_LastAlias(v) ==
    IF v.type \in {"list", "dict"} THEN fromdict(v)
    ELSE IF v.type \in {"bool", "int", "float", "str", "bytes", "bytearray", "date", "datetime"}
         THEN LET tags == DEFAULT_KEY_IDS[KindOf(v)]
              IN  IF tags = <<>> THEN [err |-> "IndexError", node |-> NoElement]
                  ELSE IF KindOf(v) \in {"true", "false"}
                       THEN PlistElement(0, tags[Len(tags)], NStr(<<>>), FALSE)
                       ELSE PlistElement(0, tags[Len(tags)], v, FALSE)
    ELSE [err |-> "ValueError", node |-> NoElement]

\* fromdict, lines 220-229 and 238-247: the element built for one value
ElementOf(v) ==
    IF v.type \in {"list", "dict"} THEN fromdict(v)
    ELSE IF v.type \in {"bool", "int", "float", "str", "bytes", "bytearray", "date", "datetime"}
         THEN IF DEFAULT_KEY_IDS[KindOf(v)] = <<>> THEN [err |-> "IndexError", node |-> NoElement]
              ELSE IF KindOf(v) \in {"true", "false"}
                   THEN PlistElement(0, DEFAULT_KEY_IDS[KindOf(v)][1], NStr(<<>>), FALSE)
                   ELSE PlistElement(0, DEFAULT_KEY_IDS[KindOf(v)][1], v, FALSE)
    ELSE \* raise ValueError('`v` is `%s`, not ...' % v): a tuple on the right of
         \* % is taken for the arguments of the format, one is expected
         IF v.type = "tuple" /\ Len(v.items) # 1
         THEN [err |-> "TypeError", node |-> NoElement]
         ELSE [err |-> "ValueError", node |-> NoElement]

\* fromdict, lines 217-229: `for k, v in source.items()` from entry i on
RECURSIVE FillDict(_, _, _)
FillDict(root, src, i) ==
    IF i > Len(src.keys) THEN [err |-> "ok", node |-> root]
    ELSE LET e == ElementOf(src.items[i])
         IN  IF e.err # "ok" THEN [err |-> e.err, node |-> NoElement]
             ELSE LET r == __setitem__(root, NStr(src.keys[i]), e.node)
                  IN  IF r.err # "ok" THEN [err |-> r.err, node |-> NoElement]
                      ELSE FillDict(r.node, src, i + 1)

\* fromdict, lines 235-247: `for v in source` from item i on
RECURSIVE FillList(_, _, _)
FillList(root, src, i) ==
    IF i > Len(src.items) THEN [err |-> "ok", node |-> root]
    ELSE LET e == ElementOf(src.items[i])
         IN  IF e.err # "ok" THEN [err |-> e.err, node |-> NoElement]
             ELSE LET r == append(root, OneElement(e.node))
                  IN  IF r.err # "ok" THEN [err |-> r.err, node |-> NoElement]
                      ELSE FillList(r.node, src, i + 1)

fromdict(src) ==
    IF src.type \in {"dict", "list"}
    THEN LET kind == IF src.type = "dict" THEN "dict" ELSE "array"
         IN  IF DEFAULT_KEY_IDS[kind] = <<>> THEN [err |-> "IndexError", node |-> NoElement]
             ELSE LET root == PlistElement(0, DEFAULT_KEY_IDS[kind][1], NStr(<<>>), FALSE)
                  IN  IF root.err # "ok" THEN root
                      ELSE IF src.type = "dict" THEN FillDict(root.node, src, 1)
                      ELSE FillList(root.node, src, 1)
    ELSE [err |-> "ValueError", node |-> NoElement]

\* ------------------------------------------------------------------------
\* Scenario 1 (Spec): keyed assignment, lookup and removal on one
\* NSDictionary that starts empty
\* ------------------------------------------------------------------------

NumKeys == 3
NumValues == 2

KeyNames == <<<<"a">>, <<"b">>, <<"c">>, <<"d">>, <<"e">>>>
Keys == {KeyNames[i] : i \in 1..NumKeys}

\* the elements a caller assigns: a bool, a key, a string, an integer, ...
ValueTags == <<"true", "key", "string", "integer", "false">>
ValueTexts == <<NNone, NStr(<<"v">>), NStr(<<"s">>), NInt(7), NNone>>
Value(i) ==
    PlistElement(i, ValueTags[((i - 1) % Len(ValueTags)) + 1],
                 ValueTexts[((i - 1) % Len(ValueTexts)) + 1], FALSE).node
Values == {Value(i) : i \in 1..NumValues}

NamespaceInit ==
    /\ DEFAULT_KEY_IDS = InitialKeyIds
    /\ DEFAULT_KEYS = InitialKeys

TreeInit ==
    /\ dict_element = PlistElement(0, "dict", NStr(<<>>), FALSE).node
    /\ lastOp = [op |-> "new", key |-> <<>>, id |-> 0, err |-> "ok"]
    /\ assigned = [k \in Keys |-> 0]

ParserIdle ==
    /\ _orderelementlist = <<>>
    /\ _validate_dicts = TRUE
    /\ pstate = "idle"
    /\ perr = "ok"
    /\ result = NoElement
    /\ created = 0
    /\ alphabet = [tags |-> {}, texts |-> {}]
    /\ budget = [starts |-> 0, chunks |-> 0]
    /\ docStack = <<>>
    /\ doc = NoElement

ConvertIdle ==
    /\ csource = NNone
    /\ cflags = [validate_dicts |-> TRUE, decode_data |-> FALSE]
    /\ cfirst = NoElement
    /\ cnative = NNone
    /\ csecond = NoElement
    /\ cstate = "idle"
    /\ cerr = "ok"

NoVerdict == [err |-> "none", val |-> FALSE]

ValidatorIdle ==
    /\ candidate = NoElement
    /\ verdict = NoVerdict

\* tree.py line 97: the default `attribs = {}` is evaluated once, with the def
AttribInit ==
    /\ dict_objects = <<NDict(<<>>, <<>>)>>
    /\ attrib = <<>>

TextIdle ==
    /\ AttribInit
    /\ text_element = NoElement
    /\ textOp = [op |-> "idle", tag |-> "", value |-> NNone, err |-> "ok"]

IndexIdle ==
    /\ subject = NoElement
    /\ opArgs = [index |-> NNone, value |-> NoElement]
    /\ outcome = [op |-> "idle", err |-> "ok", node |-> NoElement, val |-> NoElement]

MergeIdle == newdefs = <<>>

Init ==
    /\ NamespaceInit
    /\ TreeInit
    /\ ParserIdle
    /\ ConvertIdle
    /\ ValidatorIdle
    /\ TextIdle
    /\ IndexIdle
    /\ MergeIdle

\* dict_element[k] = v
SetItem ==
    \E k \in Keys, v \in Values :
        LET r == __setitem__(dict_element, NStr(k), v)
        IN  /\ dict_element' = r.node
            /\ lastOp' = [op |-> "set", key |-> k, id |-> v.id, err |-> r.err]
            /\ assigned' = IF r.err = "ok" THEN [assigned EXCEPT ![k] = v.id] ELSE assigned
            /\ UNCHANGED <<namespaceVars, parserVars, tokenizerVars, convertVars, validatorVars, textVars, indexVars, mergeVars>>

\* dict_element[k]
GetItem ==
    \E k \in Keys :
        LET r == __getitem__(dict_element, NStr(k))
        IN  /\ lastOp' = [op |-> "get", key |-> k, id |-> r.val.id, err |-> r.err]
            /\ UNCHANGED <<dict_element, assigned, namespaceVars, parserVars, tokenizerVars, convertVars, validatorVars, textVars, indexVars, mergeVars>>

\* dict_element.pop(k)
Pop ==
    \E k \in Keys :
        LET r == pop(dict_element, NStr(k))
        IN  /\ dict_element' = r.node
            /\ lastOp' = [op |-> "pop", key |-> k, id |-> 0, err |-> r.err]
            /\ assigned' = IF r.err = "ok" THEN [assigned EXCEPT ![k] = 0] ELSE assigned
            /\ UNCHANGED <<namespaceVars, parserVars, tokenizerVars, convertVars, validatorVars, textVars, indexVars, mergeVars>>

Next ==
    \/ SetItem
    \/ GetItem
    \/ Pop

Spec == Init /\ [][Next]_vars

\* Scenario 1a (SpecAssign): keyed assignment and lookup only
NextAssign ==
    \/ SetItem
    \/ GetItem

SpecAssign == Init /\ [][NextAssign]_vars

\* ------------------------------------------------------------------------
\* Scenario 2 (SpecParser): PlistXML().parse(source, validate_dicts), as
\* convert.fromstring calls it.  expat, the tokenizer, is outside the code: it
\* is modelled by what it guarantees, a well-nested sequence of StartTag,
\* CharacterData and EndTag events with a single root element, or an
\* expat error.  docStack and doc record the document the events spell, each
\* element with the identity of the PlistElement created for it (0 for a
\* plist wrapper), its whole character content and its child elements.
\* ------------------------------------------------------------------------

MaxStarts == 3
MaxChunks == 2

ParserStart(tags, texts, starts, chunks) ==
    /\ _orderelementlist = <<>>
    /\ _validate_dicts \in BOOLEAN
    /\ pstate = "parsing"
    /\ perr = "ok"
    /\ result = NoElement
    /\ created = 0
    /\ alphabet = [tags |-> tags, texts |-> texts]
    /\ budget = [starts |-> starts, chunks |-> chunks]
    /\ docStack = <<>>
    /\ doc = NoElement

\* an exception leaves parse: nothing is returned and the PlistXML instance,
\* local to fromstring, is gone
Raise(e) ==
    /\ pstate' = "raised"
    /\ perr' = e
    /\ result' = NoElement
    /\ _orderelementlist' = <<>>
    /\ created' = 0
    /\ budget' = [starts |-> 0, chunks |-> 0]
    /\ docStack' = <<>>
    /\ doc' = NoElement
    /\ UNCHANGED <<_validate_dicts, alphabet>>

\* the tokenizer reports <tag>
StartTag ==
    /\ pstate = "parsing"
    /\ doc = NoElement
    /\ budget.starts > 0
    /\ \E tag \in alphabet.tags :
          LET id == IF Lower(tag) = "plist" THEN 0 ELSE created + 1
              r == _start(_orderelementlist, id, tag)
          IN  IF r.err # "ok" THEN Raise(r.err)
              ELSE /\ _orderelementlist' = r.stack
                   /\ created' = IF id = 0 THEN created ELSE id
                   /\ docStack' = Append(docStack, Element(id, tag))
                   /\ budget' = [budget EXCEPT !.starts = @ - 1]
                   /\ UNCHANGED <<_validate_dicts, pstate, perr, result, alphabet, doc>>
    /\ UNCHANGED <<namespaceVars, treeVars, convertVars, validatorVars, textVars, indexVars, mergeVars>>

\* the tokenizer reports a run of character data inside the open element
CharacterData ==
    /\ pstate = "parsing"
    /\ docStack # <<>>
    /\ budget.chunks > 0
    /\ \E text \in alphabet.texts :
          LET r == _data(_orderelementlist, text)
          IN  IF r.err # "ok" THEN Raise(r.err)
              ELSE /\ _orderelementlist' = r.stack
                   /\ docStack' = [docStack EXCEPT ![Len(docStack)].text = @ \o text]
                   /\ budget' = [budget EXCEPT !.chunks = @ - 1]
                   /\ UNCHANGED <<_validate_dicts, pstate, perr, result, created, alphabet, doc>>
    /\ UNCHANGED <<namespaceVars, treeVars, convertVars, validatorVars, textVars, indexVars, mergeVars>>

\* the tokenizer reports the end tag of the open element
EndTag ==
    /\ pstate = "parsing"
    /\ docStack # <<>>
    /\ LET closed == docStack[Len(docStack)]
           r == _end(_orderelementlist, _validate_dicts, closed.tag)
       IN  IF r.err # "ok" THEN Raise(r.err)
           ELSE /\ _orderelementlist' = r.stack
                /\ IF Len(docStack) = 1
                   THEN /\ docStack' = <<>>
                        /\ doc' = closed
                   ELSE /\ docStack' =
                               [SubSeq(docStack, 1, Len(docStack) - 1)
                                   EXCEPT ![Len(docStack) - 1].children = Append(@, closed)]
                        /\ doc' = doc
                /\ UNCHANGED <<_validate_dicts, pstate, perr, result, created, alphabet, budget>>
    /\ UNCHANGED <<namespaceVars, treeVars, convertVars, validatorVars, textVars, indexVars, mergeVars>>

\* the source is not well-formed XML: Parse raises expat_error inside the try
\* of parse
ExpatError ==
    /\ pstate = "parsing"
    /\ Raise(except_expat_error("expat_error"))
    /\ UNCHANGED <<namespaceVars, treeVars, convertVars, validatorVars, textVars, indexVars, mergeVars>>

\* the document has ended: parse returns the bottom of the stack
Return ==
    /\ pstate = "parsing"
    /\ doc # NoElement
    /\ LET r == ReturnRoot(_orderelementlist)
       IN  IF r.err # "ok" THEN Raise(r.err)
           ELSE /\ pstate' = "returned"
                /\ result' = r.val
                /\ UNCHANGED <<_orderelementlist, _validate_dicts, perr, created,
                               alphabet, budget, docStack, doc>>
    /\ UNCHANGED <<namespaceVars, treeVars, convertVars, validatorVars, textVars, indexVars, mergeVars>>

NextParser ==
    \/ StartTag
    \/ CharacterData
    \/ EndTag
    \/ ExpatError
    \/ Return

InitParser ==
    /\ NamespaceInit
    /\ TreeInit
    /\ ParserStart({"plist", "dict", "key", "string"}, {<<"a">>}, MaxStarts, MaxChunks)
    /\ ConvertIdle
    /\ ValidatorIdle
    /\ TextIdle
    /\ IndexIdle
    /\ MergeIdle

SpecParser == InitParser /\ [][NextParser]_vars

\* ------------------------------------------------------------------------
\* Scenario 3 (SpecConvert): fromdict(source), then todict of the tree with
\* validate_dicts at its default and decode_data either way, then fromdict
\* of what todict returned.
\* ------------------------------------------------------------------------

MaxItems == 2

\* the scalars fromdict is given; None stands for the unsupported types
Scalars ==
    {NBool(TRUE), NBool(FALSE), NInt(-12), NFloat(25), NStr(<<>>), NStr(<<"7">>),
     NBytes(<<97, 98>>), NByteArray(<<0>>), NDate(<<2012, 1, 2>>),
     NDateTime(<<2000, 12, 31, 23, 59, 58>>), NNone}

ConvertKeys == {KeyNames[i] : i \in 1..MaxItems}

\* the orders in which k keys of ConvertKeys can be inserted in a dict
KeyOrders(k) ==
    {f \in [1..k -> ConvertKeys] : \A i, j \in 1..k : i # j => f[i] # f[j]}

\* the lists of at most n items of S, and the dicts of at most n entries with
\* keys of ConvertKeys and values of S
Containers(S, n) ==
    UNION {{NList(items) : items \in [1..k -> S]} : k \in 0..n}
    \cup UNION {{NDict(ks, items) : ks \in KeyOrders(k), items \in [1..k -> S]} : k \in 0..n}

\* what a source holds: the scalars, and lists and dicts of one item or none
Items == Scalars \cup Containers({NBytes(<<97, 98>>), NBool(TRUE)}, 1)

InitConvert ==
    /\ NamespaceInit
    /\ TreeInit
    /\ ParserIdle
    /\ ValidatorIdle
    /\ \E k \in 0..MaxItems :
          \E items \in [1..k -> Items] :
             \/ csource = NList(items)
             \/ \E ks \in KeyOrders(k) : csource = NDict(ks, items)
    /\ cflags \in {[validate_dicts |-> TRUE, decode_data |-> d] : d \in BOOLEAN}
    /\ cfirst = NoElement
    /\ cnative = NNone
    /\ csecond = NoElement
    /\ cstate = "start"
    /\ cerr = "ok"
    /\ TextIdle
    /\ IndexIdle
    /\ MergeIdle

\* fromdict(source)
FromDict ==
    /\ cstate = "start"
    /\ LET r == fromdict(csource)
       IN  IF r.err # "ok"
           THEN cstate' = "raised" /\ cerr' = r.err /\ UNCHANGED cfirst
           ELSE cstate' = "built" /\ cfirst' = r.node /\ UNCHANGED cerr
    /\ UNCHANGED <<csource, cflags, cnative, csecond>>
    /\ UNCHANGED <<namespaceVars, treeVars, parserVars, tokenizerVars, validatorVars, textVars, indexVars, mergeVars>>

\* todict(element, validate_dicts, decode_data) of the element built
ToDict ==
    /\ cstate = "built"
    /\ LET r == todict(cfirst, cflags.validate_dicts, cflags.decode_data)
       IN  IF r.err # "ok"
           THEN cstate' = "raised" /\ cerr' = r.err /\ UNCHANGED cnative
           ELSE cstate' = "dumped" /\ cnative' = r.val /\ UNCHANGED cerr
    /\ UNCHANGED <<csource, cflags, cfirst, csecond>>
    /\ UNCHANGED <<namespaceVars, treeVars, parserVars, tokenizerVars, validatorVars, textVars, indexVars, mergeVars>>

\* fromdict of the native value todict returned
FromDictBack ==
    /\ cstate = "dumped"
    /\ LET r == fromdict(cnative)
       IN  IF r.err # "ok"
           THEN cstate' = "raised" /\ cerr' = r.err /\ UNCHANGED csecond
           ELSE cstate' = "rebuilt" /\ csecond' = r.node /\ UNCHANGED cerr
    /\ UNCHANGED <<csource, cflags, cfirst, cnative>>
    /\ UNCHANGED <<namespaceVars, treeVars, parserVars, tokenizerVars, validatorVars, textVars, indexVars, mergeVars>>

NextConvert ==
    \/ FromDict
    \/ ToDict
    \/ FromDictBack

SpecConvert == InitConvert /\ [][NextConvert]_vars

\* ------------------------------------------------------------------------
\* Scenario 4 (SpecValidator): _dicterror(element) on an element with up to
\* MaxChildren children.
\* ------------------------------------------------------------------------

MaxChildren == 4

CandidateTags == {"dict", "array", "string"}
CandidateChildren == {Element(0, t) : t \in {"key", "string", "dict"}}

Candidates ==
    {[Element(1, t) EXCEPT !.children = cs] :
        t \in CandidateTags,
        cs \in UNION {[1..k -> CandidateChildren] : k \in 0..MaxChildren}}

InitValidator ==
    /\ NamespaceInit
    /\ TreeInit
    /\ ParserIdle
    /\ ConvertIdle
    /\ candidate \in Candidates
    /\ verdict = NoVerdict
    /\ TextIdle
    /\ IndexIdle
    /\ MergeIdle

\* _dicterror(element): the element is only read
DictError ==
    /\ verdict = NoVerdict
    /\ verdict' = _dicterror(candidate)
    /\ UNCHANGED candidate
    /\ UNCHANGED <<namespaceVars, treeVars, parserVars, tokenizerVars, convertVars, textVars, indexVars, mergeVars>>

NextValidator == DictError

SpecValidator == InitValidator /\ [][NextValidator]_vars

\* ------------------------------------------------------------------------
\* Claims on the tree API
\* ------------------------------------------------------------------------

IsKeyNode(e) == InKind(e.tag, "key")

\* C1: after every keyed assignment and removal on a Dict that started
\* empty, children has even length and every entry (k, i) of the key index
\* points into children, at a value that is the one last assigned to k and
\* that is preceded by a Key node with text k.
C1_KeyIndexConsistent ==
    LET d == dict_element
    IN  /\ Len(d.children) % 2 = 0
        /\ \A k \in DOMAIN d.dictitems :
              LET i == d.dictitems[k]
              IN  /\ 1 <= i /\ i < Len(d.children)
                  /\ IsKeyNode(d.children[i])
                  /\ d.children[i].text = k
                  /\ d.children[i + 1].id = assigned[k]

\* the children of d without the first Key node of text k and the node after it
WithoutPair(d, k) ==
    IF \E p \in DOMAIN d.children : IsKeyNode(d.children[p]) /\ d.children[p].text = k
    THEN LET p == CHOOSE p \in DOMAIN d.children :
                      /\ IsKeyNode(d.children[p]) /\ d.children[p].text = k
                      /\ \A q \in 1..(p - 1) :
                            ~(IsKeyNode(d.children[q]) /\ d.children[q].text = k)
         IN  SubSeq(d.children, 1, p - 1) \o SubSeq(d.children, p + 2, Len(d.children))
    ELSE d.children

\* C2: pop(k) of a present key removes exactly k's Key node, k's value node
\* and k's index entry; every other present key stays present and get
\* returns for it the same value node as before.
C2_PopRemovesOnlyItsPair ==
    [][\A k \in Keys :
          (lastOp'.op = "pop" /\ lastOp'.key = k /\ k \in DOMAIN dict_element.dictitems)
          => /\ lastOp'.err = "ok"
             /\ dict_element'.children = WithoutPair(dict_element, k)
             /\ DOMAIN dict_element'.dictitems = DOMAIN dict_element.dictitems \ {k}
             /\ \A o \in DOMAIN dict_element.dictitems \ {k} :
                   /\ __getitem__(dict_element', NStr(o)).err = "ok"
                   /\ __getitem__(dict_element', NStr(o)) = __getitem__(dict_element, NStr(o))
      ]_vars

\* C3: a keyed assignment on a Dict never fails with KeyError or IndexError,
\* whether or not the key is present.
C3_AssignmentNeverFails ==
    lastOp.op = "set" => lastOp.err \notin {"KeyError", "IndexError"}

\* C4 as stated: after keyed assignments of nodes of any kind, Key nodes
\* included, every even-position child is a Key node, every odd-position
\* child is not, and the validator accepts the Dict.
C4_ShapeAfterAnyAssignment ==
    LET d == dict_element
    IN  /\ \A p \in DOMAIN d.children : IsKeyNode(d.children[p]) <=> (p % 2 = 1)
        /\ _dicterror(d) = [err |-> "ok", val |-> FALSE]

\* C4 amended: after keyed assignments the children have even length and
\* every even-position child is a Key node; an odd-position child is a Key
\* node exactly when the value last assigned to its key is one, so the
\* validator accepts the Dict whenever no assigned value is a Key node.
C4_ShapeAfterNonKeyAssignment ==
    LET d == dict_element
        noKeyValue == \A k \in Keys : assigned[k] # 0 => ~IsKeyNode(Value(assigned[k]))
    IN  /\ Len(d.children) % 2 = 0
        /\ \A p \in DOMAIN d.children : (p % 2 = 1) => IsKeyNode(d.children[p])
        /\ noKeyValue =>
              /\ \A p \in DOMAIN d.children : (p % 2 = 0) => ~IsKeyNode(d.children[p])
              /\ _dicterror(d) = [err |-> "ok", val |-> FALSE]
        /\ ~noKeyValue => _dicterror(d) = [err |-> "ok", val |-> TRUE]

\* C4 witness: two keys hold non-Key values after an assignment
C4_Witness ==
    /\ lastOp.op = "set" /\ lastOp.err = "ok"
    /\ Len(dict_element.children) >= 4
    /\ \A k \in Keys : assigned[k] # 0 => ~IsKeyNode(Value(assigned[k]))

\* C6: no Dict has two Key children with the same text (checked here on the
\* Dict built by keyed assignments and removals, at its key positions).
C6_KeysUnique ==
    LET c == dict_element.children
    IN  \A p, q \in DOMAIN c :
            (p % 2 = 1 /\ q % 2 = 1 /\ p # q /\ IsKeyNode(c[p]) /\ IsKeyNode(c[q]))
            => c[p].text # c[q].text

\* ------------------------------------------------------------------------
\* Claims on the parser
\* ------------------------------------------------------------------------

\* every element of the tree under e, e included
RECURSIVE Nodes(_)
Nodes(e) == {e} \cup UNION {Nodes(e.children[p]) : p \in DOMAIN e.children}

IsDictNode(e) == InKind(e.tag, "dict")

\* C5: a tree that parse returns with validate_dicts set holds no Dict that
\* the dictionary validator rejects.
C5_ReturnedDictsAreValid ==
    (pstate = "returned" /\ _validate_dicts)
    => \A e \in Nodes(result) :
          IsDictNode(e) => _dicterror(e) = [err |-> "ok", val |-> FALSE]

\* a Dict element of the document whose child elements are Key elements
\* (holding text only), each followed by one value element that is not a
\* Key, with distinct key texts
KeyedDict(g) ==
    /\ Len(g.children) % 2 = 0
    /\ \A p \in DOMAIN g.children :
          IF p % 2 = 1 THEN IsKeyNode(g.children[p]) /\ g.children[p].children = <<>>
          ELSE ~IsKeyNode(g.children[p]) /\ Lower(g.children[p].tag) # "plist"
    /\ \A p, q \in DOMAIN g.children :
          (p % 2 = 1 /\ q % 2 = 1 /\ p # q)
          => Strip(g.children[p].text) # Strip(g.children[q].text)

\* C7: when every Dict element of the document is keyed as above, then in
\* the returned tree get(k) on the node of each Dict returns, for each of
\* its keys k, the node built from the element that follows k's Key element.
C7_KeyedLookupFindsFollowingElement ==
    (pstate = "returned" /\ \A g \in Nodes(doc) : IsDictNode(g) => KeyedDict(g))
    => \A g \in Nodes(doc) :
          IsDictNode(g) =>
             \E d \in Nodes(result) :
                /\ d.id = g.id
                /\ \A p \in DOMAIN g.children :
                      p % 2 = 1 =>
                         LET got == __getitem__(d, NStr(Strip(g.children[p].text)))
                         IN  got.err = "ok" /\ got.val.id = g.children[p + 1].id

\* C9: once the last EndTag of a document with at least one element other
\* than the wrapper has been processed, the stack holds exactly one node,
\* the one created by the first StartTag that is not a wrapper, and parse
\* returns it.
C9_StackEndsWithFirstElement ==
    (pstate \in {"parsing", "returned"} /\ doc # NoElement /\ created >= 1)
    => /\ Len(_orderelementlist) = 1
       /\ _orderelementlist[1].id = 1
       /\ ReturnRoot(_orderelementlist) = [err |-> "ok", val |-> _orderelementlist[1]]
       /\ pstate = "returned" => result = _orderelementlist[1]

\* C9 witness: a document of three elements was parsed and its first
\* element returned with the others below it
C9_Witness ==
    /\ pstate = "returned"
    /\ created >= 3
    /\ result.id = 1
    /\ result.children # <<>>

\* ------------------------------------------------------------------------
\* Claims on the conversions
\* ------------------------------------------------------------------------

\* same kinds, texts and child order at every position
RECURSIVE StructEq(_, _)
StructEq(x, y) ==
    /\ x.tag = y.tag
    /\ x.text = y.text
    /\ Len(x.children) = Len(y.children)
    /\ \A p \in DOMAIN x.children : StructEq(x.children[p], y.children[p])

\* the tree e with every Data node turned into a String node of the same text
RECURSIVE DataAsString(_)
DataAsString(e) ==
    [e EXCEPT !.tag = IF InKind(e.tag, "data") THEN DEFAULT_KEY_IDS["string"][1] ELSE @,
              !.children = [p \in DOMAIN e.children |-> DataAsString(e.children[p])]]

\* C8 as stated: with todict at its default flags, once fromdict(source) has
\* built a tree, todict of it and fromdict of the result both succeed and
\* give a tree structurally equal to the first.
C8_RoundTripDefaultFlags ==
    (~cflags.decode_data /\ cfirst # NoElement)
    => /\ cstate # "raised"
       /\ cstate = "rebuilt" => StructEq(csecond, cfirst)

\* C8 amended: once fromdict(source) has built a tree, todict of it and
\* fromdict of the result both succeed; with decode_data set the second tree
\* is structurally equal to the first, and with decode_data at its default
\* FALSE it is the first tree with every Data node turned into a String node
\* of the same text, so the two are equal exactly when the source holds no
\* bytes and no bytearray.
C8_RoundTripUpToData ==
    cfirst # NoElement
    => /\ cstate # "raised"
       /\ cstate = "rebuilt" =>
             IF cflags.decode_data THEN StructEq(csecond, cfirst)
             ELSE /\ StructEq(csecond, DataAsString(cfirst))
                  /\ StructEq(csecond, cfirst)
                        <=> \A e \in Nodes(cfirst) : ~InKind(e.tag, "data")

\* C8 witness: a source holding a nested container and a bool has made the
\* round trip with default flags and come back equal
C8_Witness ==
    /\ cstate = "rebuilt"
    /\ ~cflags.decode_data
    /\ Len(cfirst.children) >= 2
    /\ \E e \in Nodes(cfirst) : e # cfirst /\ isdirectory(e)
    /\ \E e \in Nodes(cfirst) : isbool(e)
    /\ StructEq(csecond, cfirst)

\* ------------------------------------------------------------------------
\* Claims on the dictionary validator
\* ------------------------------------------------------------------------

\* C10: _dicterror of a Dict answers False when it has no children, True
\* when their number is odd, and otherwise True exactly when a child at an
\* even position (counted from 0) is not a Key or a child at an odd position
\* is a Key; of a node that is not a Dict it raises ValueError; the node is
\* the same after the call.
C10_ValidatorVerdict ==
    verdict # NoVerdict
    => LET c == candidate.children
       IN  IF ~IsDictNode(candidate) THEN verdict.err = "ValueError"
           ELSE /\ verdict.err = "ok"
                /\ verdict.val =
                      IF c = <<>> THEN FALSE
                      ELSE IF Len(c) % 2 = 1 THEN TRUE
                      ELSE \E p \in DOMAIN c :
                              IF p % 2 = 1 THEN ~IsKeyNode(c[p]) ELSE IsKeyNode(c[p])

\* C10 witness: a Dict of four children with Keys at both even positions is
\* found invalid, for a Key at an odd position
C10_Witness ==
    /\ verdict = [err |-> "ok", val |-> TRUE]
    /\ IsDictNode(candidate)
    /\ Len(candidate.children) = 4
    /\ IsKeyNode(candidate.children[1]) /\ IsKeyNode(candidate.children[3])
    /\ IsKeyNode(candidate.children[2]) \/ IsKeyNode(candidate.children[4])

\* ------------------------------------------------------------------------
\* Claims on keyed assignment
\* ------------------------------------------------------------------------

\* the NSKey __setitem__ creates for the key k
KeyNodeOf(k) == [Element(0, "key") EXCEPT !.text = k]

\* C11: on a Dict built by keyed assignments alone, d[k] = v for an absent k
\* appends a Key node of text k and then v, and records the last position
\* as k's index; for a present k it replaces k's value slot and nothing
\* else; either way d[k] returns v right afterwards.
C11_AssignAppendsOrReplaces ==
    [][\A k \in Keys :
          (lastOp'.op = "set" /\ lastOp'.key = k)
          => LET d == dict_element
                 e == dict_element'
                 v == Value(lastOp'.id)
             IN  /\ lastOp'.err = "ok"
                 /\ IF k \notin DOMAIN d.dictitems
                    THEN /\ e.children = d.children \o <<KeyNodeOf(k), v>>
                         /\ DOMAIN e.dictitems = DOMAIN d.dictitems \cup {k}
                         /\ e.dictitems[k] = Len(e.children) - 1
                         /\ \A o \in DOMAIN d.dictitems : e.dictitems[o] = d.dictitems[o]
                    ELSE /\ Len(e.children) = Len(d.children)
                         /\ e.children[d.dictitems[k] + 1] = v
                         /\ \A p \in DOMAIN d.children :
                               p # d.dictitems[k] + 1 => e.children[p] = d.children[p]
                         /\ e.dictitems = d.dictitems
                 /\ __getitem__(e, NStr(k)) = [err |-> "ok", val |-> v]
      ]_vars

\* C11 witness: the key appended first was assigned again after a second key
\* had been appended, so its value was replaced in place
C11_Witness ==
    /\ lastOp.op = "set" /\ lastOp.err = "ok"
    /\ Len(dict_element.children) >= 4
    /\ dict_element.children[1].text = lastOp.key
    /\ dict_element.children[2].id = lastOp.id
    /\ dict_element.children[4].id # lastOp.id

\* C12: no node appears twice among the children of a Dict built by keyed
\* assignments (the nodes a caller assigns carry their identity in id; the
\* Key nodes the Dict creates itself are fresh objects with id 0).
C12_NoChildTwice ==
    LET c == dict_element.children
    IN  \A p, q \in DOMAIN c : (p # q /\ c[p].id # 0) => c[p].id # c[q].id

\* ------------------------------------------------------------------------
\* Scenario 5 (SpecText): one element is constructed with a tag and a text,
\* then its text and its tag are assigned.
\* ------------------------------------------------------------------------

\* the tags of the default namespace, and one that is in no namespace
TextTags ==
    {"key", "string", "data", "dict", "array", "integer", "true", "false", "real",
     "date", "unknown"}

\* the values given as text; for an NSKey or NSString only None and str are
\* given (the code would store another object as it is, and texts are str)
TextValues ==
    {NNone, NStr(<<>>), NStr(<<"7">>), NStr(<<"x">>), NStr(<<" ">>), NInt(-12),
     NFloat(25), NBool(TRUE), NBytes(<<97, 98>>), NByteArray(<<0>>),
     NDate(<<2012, 1, 2>>), NDateTime(<<2000, 12, 31, 23, 59, 58>>)}

InitText ==
    /\ NamespaceInit
    /\ TreeInit
    /\ ParserIdle
    /\ ConvertIdle
    /\ ValidatorIdle
    /\ IndexIdle
    /\ MergeIdle
    /\ AttribInit
    /\ text_element = NoElement
    /\ textOp = [op |-> "none", tag |-> "", value |-> NNone, err |-> "ok"]

\* text_element = PlistElement(tag, value)
Construct ==
    /\ textOp.op = "none"
    /\ \E tag \in TextTags, value \in TextValues :
          LET r == PlistElement(1, tag, value, FALSE)
          IN  /\ r.err # "Unmodelled"
              /\ text_element' = r.node
              /\ textOp' = [op |-> "new", tag |-> tag, value |-> value, err |-> r.err]
    /\ UNCHANGED <<dict_objects, attrib>>
    /\ UNCHANGED <<namespaceVars, treeVars, parserVars, tokenizerVars, convertVars,
                   validatorVars, indexVars, mergeVars>>

\* text_element.text = value
AssignText ==
    /\ text_element # NoElement
    /\ \E value \in TextValues :
          LET r == SetText(text_element, value)
          IN  /\ r.err # "Unmodelled"
              /\ text_element' = r.node
              /\ textOp' = [op |-> "text", tag |-> text_element.tag, value |-> value,
                            err |-> r.err]
    /\ UNCHANGED <<dict_objects, attrib>>
    /\ UNCHANGED <<namespaceVars, treeVars, parserVars, tokenizerVars, convertVars,
                   validatorVars, indexVars, mergeVars>>

\* text_element.tag = tag
AssignTag ==
    /\ text_element # NoElement
    /\ \E tag \in TextTags :
          LET r == SetTag(text_element, NStr(<<tag>>))
          IN  /\ text_element' = r.node
              /\ textOp' = [op |-> "tag", tag |-> tag, value |-> NNone, err |-> r.err]
    /\ UNCHANGED <<dict_objects, attrib>>
    /\ UNCHANGED <<namespaceVars, treeVars, parserVars, tokenizerVars, convertVars,
                   validatorVars, indexVars, mergeVars>>

NextText ==
    \/ Construct
    \/ AssignText
    \/ AssignTag

SpecText == InitText /\ [][NextText]_vars

\* ------------------------------------------------------------------------
\* Scenario 6 (SpecIndex): one of subject[index], subject[index] = value,
\* subject.append(value) and subject.pop(index) on an element built through
\* the API: an NSArray of up to MaxLen elements, an NSDictionary of up to
\* MaxLen keys, or an element that is neither.
\* ------------------------------------------------------------------------

MaxLen == 2

\* the identity of the element operated on, apart from those of Values
SubjectId == NumValues + 1

\* an NSArray after append(vs)
ArrayOf(vs) == append(Element(SubjectId, "array"), ElementList(vs)).node

\* an NSDictionary after d[KeyNames[1]] = vs[1], ..., d[KeyNames[k]] = vs[k]
RECURSIVE DictOf(_, _)
DictOf(vs, k) ==
    IF k = 0 THEN Element(SubjectId, "dict")
    ELSE __setitem__(DictOf(vs, k - 1), NStr(KeyNames[k]), vs[k]).node

\* int indexes inside and outside the subject, True (an int), the keys as
\* str, and a float and None, which are neither int nor str
Indexes ==
    {NInt(i) : i \in (-(MaxLen + 1))..MaxLen}
    \cup {NBool(TRUE), NFloat(10), NNone}
    \cup {NStr(k) : k \in Keys}

InitIndex ==
    /\ NamespaceInit
    /\ TreeInit
    /\ ParserIdle
    /\ ConvertIdle
    /\ ValidatorIdle
    /\ TextIdle
    /\ MergeIdle
    /\ \E k \in 0..MaxLen :
          \E vs \in [1..k -> Values] :
             \/ subject = ArrayOf(vs)
             \/ subject = DictOf(vs, k)
             \/ k = 1 /\ subject = vs[1]
    /\ opArgs \in [index : Indexes, value : Values]
    /\ outcome = [op |-> "ready", err |-> "ok", node |-> subject, val |-> NoElement]

\* subject[index]
GetIndex ==
    /\ outcome.op = "ready"
    /\ LET r == __getitem__(subject, opArgs.index)
       IN  outcome' = [op |-> "get", err |-> r.err, node |-> subject, val |-> r.val]
    /\ UNCHANGED <<subject, opArgs>>
    /\ UNCHANGED <<namespaceVars, treeVars, parserVars, tokenizerVars, convertVars,
                   validatorVars, textVars, mergeVars>>

\* subject[index] = value
SetIndex ==
    /\ outcome.op = "ready"
    /\ LET r == __setitem__(subject, opArgs.index, opArgs.value)
       IN  outcome' = [op |-> "set", err |-> r.err, node |-> r.node, val |-> NoElement]
    /\ UNCHANGED <<subject, opArgs>>
    /\ UNCHANGED <<namespaceVars, treeVars, parserVars, tokenizerVars, convertVars,
                   validatorVars, textVars, mergeVars>>

\* subject.append(value), subject.append([value, first]) for the first of the
\* values, subject.append([]), subject.append(None); the argument is kept
\* with the outcome
AppendValue ==
    /\ outcome.op = "ready"
    /\ \E a \in {OneElement(opArgs.value), ElementList(<<opArgs.value, Value(1)>>),
                 ElementList(<<>>), NotElements} :
          LET r == append(subject, a)
          IN  outcome' = [op |-> "append", err |-> r.err, node |-> r.node,
                          val |-> NoElement, arg |-> a]
    /\ UNCHANGED <<subject, opArgs>>
    /\ UNCHANGED <<namespaceVars, treeVars, parserVars, tokenizerVars, convertVars,
                   validatorVars, textVars, mergeVars>>

\* subject.pop(index)
PopIndex ==
    /\ outcome.op = "ready"
    /\ LET r == pop(subject, opArgs.index)
       IN  outcome' = [op |-> "pop", err |-> r.err, node |-> r.node, val |-> NoElement]
    /\ UNCHANGED <<subject, opArgs>>
    /\ UNCHANGED <<namespaceVars, treeVars, parserVars, tokenizerVars, convertVars,
                   validatorVars, textVars, mergeVars>>

NextIndex ==
    \/ GetIndex
    \/ SetIndex
    \/ AppendValue
    \/ PopIndex

SpecIndex == InitIndex /\ [][NextIndex]_vars

\* ------------------------------------------------------------------------
\* Scenario 7 (SpecNodes): any one of the attribute scenario, the index
\* scenario and a parse.
\* ------------------------------------------------------------------------

InitNodes == InitText \/ InitIndex \/ InitParser

NextNodes == NextText \/ NextIndex \/ NextParser

SpecNodes == InitNodes /\ [][NextNodes]_vars

\* ------------------------------------------------------------------------
\* Claims on the attributes of an element
\* ------------------------------------------------------------------------

\* every element the attribute scenario, the index scenario or the parse
\* holds, with the elements below it
AllNodes ==
    Nodes(text_element) \cup Nodes(subject) \cup Nodes(outcome.node) \cup Nodes(outcome.val)
    \cup Nodes(result) \cup UNION {Nodes(_orderelementlist[i]) : i \in DOMAIN _orderelementlist}

\* the tags of Dict, Array, BoolTrue and BoolFalse in the default namespace
TextlessTags == {"dict", "array", "true", "false"}

\* C13: giving a Dict, Array, BoolTrue or BoolFalse element a text other
\* than '' and None, at construction or by assignment, raises SyntaxError,
\* giving it '' or None succeeds, and no element of these kinds ever has a
\* text other than '', whether built through the API or by the parser.
C13_NoTextOnDirectoriesAndBools ==
    /\ (textOp.op \in {"new", "text"} /\ textOp.tag \in TextlessTags)
       => textOp.err = IF textOp.value \in {NNone, NStr(<<>>)} THEN "ok" ELSE "SyntaxError"
    /\ \A e \in AllNodes : e.tag \in TextlessTags => e.text = <<>>

\* C13 witness: a text was assigned to a constructed BoolFalse element and
\* refused
C13_Witness ==
    /\ textOp.op = "text"
    /\ textOp.tag = "false"
    /\ textOp.value = NStr(<<"x">>)
    /\ textOp.err = "SyntaxError"
    /\ text_element.tag = "false" /\ text_element.text = <<>>

\* ------------------------------------------------------------------------
\* Scenario 8 (SpecNamespace): updatekeys(newdefs), any number of times.
\* ------------------------------------------------------------------------

\* the kinds an update names: two of the namespace and one that is new
MergeKinds == {"int", "key", "uid"}

\* the tag lists an update gives a kind
AliasLists == {<<"integer">>, <<"num", "integer">>, <<"key">>, <<"k">>, <<>>}

NewDefs == UNION {[ks -> AliasLists] : ks \in SUBSET MergeKinds}

InitNamespace ==
    /\ NamespaceInit
    /\ TreeInit
    /\ ParserIdle
    /\ ConvertIdle
    /\ ValidatorIdle
    /\ TextIdle
    /\ IndexIdle
    /\ MergeIdle

\* updatekeys(defs)
UpdateKeys ==
    /\ \E defs \in NewDefs :
          LET r == updatekeys(DEFAULT_KEY_IDS, defs)
          IN  /\ DEFAULT_KEY_IDS' = r.ids
              /\ DEFAULT_KEYS' = r.keys
              /\ newdefs' = defs
    /\ UNCHANGED <<treeVars, parserVars, tokenizerVars, convertVars, validatorVars,
                   textVars, indexVars>>

NextNamespace == UpdateKeys

SpecNamespace == InitNamespace /\ [][NextNamespace]_vars

\* ------------------------------------------------------------------------
\* Claims on the namespace
\* ------------------------------------------------------------------------

\* the tags of DEFAULT_KEYS are exactly those listed under some kind
FlatKeysMatch(keys, ids) ==
    Range(keys) = UNION {Range(ids[k]) : k \in DOMAIN ids}

\* C14: updatekeys(newdefs) gives each kind of newdefs exactly the tags
\* newdefs lists for it and leaves the tags of every other kind as they
\* were, and before and after every update the tags of DEFAULT_KEYS are
\* exactly those listed under some kind of DEFAULT_KEY_IDS.
C14_UpdateReplacesSuppliedKinds ==
    [][/\ FlatKeysMatch(DEFAULT_KEYS, DEFAULT_KEY_IDS)
       /\ FlatKeysMatch(DEFAULT_KEYS', DEFAULT_KEY_IDS')
       /\ DOMAIN DEFAULT_KEY_IDS' = DOMAIN DEFAULT_KEY_IDS \cup DOMAIN newdefs'
       /\ \A k \in DOMAIN newdefs' : DEFAULT_KEY_IDS'[k] = newdefs'[k]
       /\ \A k \in DOMAIN DEFAULT_KEY_IDS \ DOMAIN newdefs' :
             DEFAULT_KEY_IDS'[k] = DEFAULT_KEY_IDS[k]
      ]_vars

\* C14 witness: an update has given the int kind the tags num and integer
\* and the key kind the tag key, after an earlier one had added the uid kind;
\* num is a known tag and an int tag, k is not a known tag, and the string
\* kind has the tags it started with
C14_Witness ==
    /\ DOMAIN newdefs = {"int", "key"}
    /\ DEFAULT_KEY_IDS["int"] = <<"num", "integer">>
    /\ DEFAULT_KEY_IDS["key"] = <<"key">>
    /\ "uid" \in DOMAIN DEFAULT_KEY_IDS
    /\ InKind("num", "int") /\ "num" \in Range(DEFAULT_KEYS)
    /\ "k" \notin Range(DEFAULT_KEYS)
    /\ DEFAULT_KEY_IDS["string"] = InitialKeyIds["string"]

\* ------------------------------------------------------------------------
\* Claims on the conversion of scalars
\* ------------------------------------------------------------------------

\* in the tree built from src, every bool of src, at any depth, is a true
\* element or a false element according to its value
RECURSIVE BoolNodes(_, _)
BoolNodes(src, tree) ==
    \A i \in DOMAIN src.items :
        LET v == src.items[i]
            e == tree.children[IF src.type = "dict" THEN 2 * i ELSE i]
        IN  /\ v.type = "bool" => e.tag = (IF v.b THEN "true" ELSE "false") /\ e.text = <<>>
            /\ v.type \in {"list", "dict"} => BoolNodes(v, e)

\* in the native value got back, every bool of src, at any depth, is the
\* same bool under the same key or at the same place
RECURSIVE BoolsBack(_, _)
BoolsBack(src, back) ==
    /\ back.type = src.type
    /\ back.keys = src.keys
    /\ Len(back.items) = Len(src.items)
    /\ \A i \in DOMAIN src.items :
          LET v == src.items[i]
          IN  /\ v.type = "bool" => back.items[i] = NBool(v.b)
              /\ v.type \in {"list", "dict"} => BoolsBack(v, back.items[i])

\* C15: fromdict turns every True into a true element and every False into
\* a false element, never into an integer element, and todict turns them
\* back into True and False, under the same keys and at the same places.
C15_BoolsPreserved ==
    /\ cfirst # NoElement => BoolNodes(csource, cfirst)
    /\ cstate \in {"dumped", "rebuilt"} => BoolsBack(csource, cnative)

\* C15 witness: a dict holding False and a list holding True has been
\* converted to a tree and back
C15_Witness ==
    /\ cstate = "dumped"
    /\ csource.type = "dict"
    /\ \E i, j \in DOMAIN csource.items :
          /\ csource.items[i] = NBool(FALSE)
          /\ csource.items[j] = NList(<<NBool(TRUE)>>)
    /\ cnative.items = csource.items

\* ------------------------------------------------------------------------
\* Scenario 9 (SpecDump): todict(element, validate_dicts, decode_data) of a
\* tree that was put together element by element, as tests/test_convert.py
\* does: a leaf, or a Dict or an Array of up to MaxTreeChildren children,
\* valid or not, with both flags either way.
\* ------------------------------------------------------------------------

MaxTreeChildren == 3

\* PlistElement(tag, text) for a text the class accepts
Leaf(tag, text) == PlistElement(0, tag, text, FALSE).node

\* element._children.append(child) for each child in turn
WithChildren(tag, children) == [Element(0, tag) EXCEPT !.children = children]

TreeLeaves ==
    {Leaf("key", NStr(<<"a">>)), Leaf("key", NStr(<<"b">>)),
     Leaf("data", NBytes(<<97, 98>>)), Leaf("integer", NFloat(25)),
     Leaf("true", NNone)}

\* a Dict of one key and no value, a Dict of a key and its Data, an Array of
\* a Data, an Array of the Dict that has no value
TreeDirectories ==
    {WithChildren("dict", <<Leaf("key", NStr(<<"a">>))>>),
     WithChildren("dict", <<Leaf("key", NStr(<<"a">>)), Leaf("data", NBytes(<<0>>))>>),
     WithChildren("array", <<Leaf("data", NBytes(<<0, 1, 2>>))>>),
     WithChildren("array", <<WithChildren("dict", <<Leaf("key", NStr(<<"a">>))>>)>>)}

TreeRoots ==
    {Leaf("data", NBytes(<<97, 98>>)), Leaf("integer", NInt(7)),
     Leaf("string", NStr(<<"a">>)), Leaf("key", NStr(<<"a">>)),
     Leaf("real", NFloat(25)), Leaf("date", NDate(<<2012, 1, 2>>)),
     Leaf("true", NNone), Leaf("false", NNone)}

InitDump ==
    /\ NamespaceInit
    /\ TreeInit
    /\ ParserIdle
    /\ ValidatorIdle
    /\ TextIdle
    /\ IndexIdle
    /\ MergeIdle
    /\ csource = NNone
    /\ cflags \in [validate_dicts : BOOLEAN, decode_data : BOOLEAN]
    /\ \/ cfirst \in TreeRoots
       \/ \E k \in 0..MaxTreeChildren :
             \E children \in [1..k -> TreeLeaves \cup TreeDirectories] :
                \E tag \in {"dict", "array"} : cfirst = WithChildren(tag, children)
    /\ cnative = NNone
    /\ csecond = NoElement
    /\ cstate = "built"
    /\ cerr = "ok"

NextDump == ToDict

SpecDump == InitDump /\ [][NextDump]_vars

\* the native value todict is to give for the Data leaf e
DataValue(e, n) ==
    IF cflags.decode_data
    THEN n.type = "bytes" /\ b64encode(n.q) = e.text
    ELSE n = NStr(e.text)

\* every Data leaf under the element e has its value in the native value n
RECURSIVE DataLeaves(_, _)
DataLeaves(e, n) ==
    IF InKind(e.tag, "data") THEN DataValue(e, n)
    ELSE IF InKind(e.tag, "array")
         THEN /\ n.type = "list"
              /\ Len(n.items) = Len(e.children)
              /\ \A i \in DOMAIN e.children : DataLeaves(e.children[i], n.items[i])
    ELSE IF InKind(e.tag, "dict")
         THEN /\ n.type = "dict"
              /\ \A i \in 1..(Len(e.children) \div 2) :
                    LET k == e.children[2 * i - 1].text
                    IN  \* a later pair of the same key text takes the entry
                        (\A j \in (i + 1)..(Len(e.children) \div 2) :
                            e.children[2 * j - 1].text # k)
                        => \E p \in DOMAIN n.keys :
                              /\ n.keys[p] = k
                              /\ DataLeaves(e.children[2 * i], n.items[p])
    ELSE TRUE

\* C16: whenever todict returns, every Data leaf of the converted tree, the
\* root included (a leaf root comes back in a list of one), has become the
\* bytes its base64 text encodes when decode_data is set, and its base64 text
\* itself when decode_data is not set.
C16_DataLeavesDecoded ==
    cstate = "dumped" =>
        IF isdirectory(cfirst) THEN DataLeaves(cfirst, cnative)
        ELSE /\ cnative.type = "list"
             /\ Len(cnative.items) = 1
             /\ DataLeaves(cfirst, cnative.items[1])

\* the same for the Data leaves below a Dict or Array root only
C16_DataLeavesBelowRoot ==
    cstate = "dumped" /\ isdirectory(cfirst) => DataLeaves(cfirst, cnative)

\* a Dict that fails _dicterror is the element e or is reachable from it
\* through the children of Dicts and Arrays
RECURSIVE HasInvalidDict(_)
HasInvalidDict(e) ==
    \/ InKind(e.tag, "dict") /\ _dicterror(e).val
    \/ /\ isdirectory(e)
       /\ \E i \in DOMAIN e.children : HasInvalidDict(e.children[i])

\* C17: once todict has run, with validate_dicts set and an invalid Dict
\* anywhere in the converted tree it has raised AssertionError and returned
\* nothing, and with validate_dicts not set it has not raised AssertionError.
C17_InvalidDictAsserted ==
    cstate \in {"dumped", "raised"} =>
        /\ cflags.validate_dicts /\ HasInvalidDict(cfirst)
              => cstate = "raised" /\ cerr = "AssertionError" /\ cnative = NNone
        /\ ~cflags.validate_dicts => cerr # "AssertionError"

\* every Integer leaf of the tree holds a text that int() takes
RECURSIVE IntegersParse(_)
IntegersParse(e) ==
    /\ InKind(e.tag, "int") => StrToInt(e.text).err = "ok"
    /\ \A i \in DOMAIN e.children : IntegersParse(e.children[i])

\* the same for the trees whose leaves todict can all convert
C17_InvalidDictAssertedOrLeafFails ==
    cstate \in {"dumped", "raised"} /\ IntegersParse(cfirst) => C17_InvalidDictAsserted

\* C18: an assignment to the tag of a constructed element raises
\* AttributeError and leaves the tag as it was, and no step (text assignment,
\* indexed get or set, append, pop, parser event) changes the tag of an
\* element that exists before it.
C18_TagImmutable ==
    [][/\ textOp'.op = "tag"
          => /\ textOp'.err = "AttributeError"
             /\ text_element'.tag = text_element.tag
       /\ \A n \in AllNodes \cup Nodes(opArgs.value) :
             \A m \in AllNodes' : n.id > 0 /\ m.id = n.id => m.tag = n.tag]_vars

C18_Witness ==
    /\ textOp.op = "tag"
    /\ textOp.err = "AttributeError"
    /\ text_element.tag = "string"
    /\ textOp.tag = "dict"

\* the key text that sits before a value among the children of a Dict
HasKey(e, k) ==
    \E i \in 1..(Len(e.children) \div 2) :
        IsKeyNode(e.children[2 * i - 1]) /\ e.children[2 * i - 1].text = k

\* what the contract table asks of subject[index] (op "get") and of
\* subject[index] = value (op "set"): the exception to raise, "" where the
\* table names none. A bool is an int to isinstance; a position is outside an
\* array of n children when it is below -n or not below n.
TableError(op, e, index) ==
    LET isInt == index.type \in {"int", "bool"}
        isStr == index.type = "str"
        i == IF index.type = "bool" THEN 1 ELSE index.n
        n == Len(e.children)
    IN  IF e.tag \notin {"dict", "array"} THEN "SyntaxError"
        ELSE IF isInt /\ e.tag = "dict" THEN "ValueError"
        ELSE IF isStr /\ e.tag = "array" THEN "ValueError"
        ELSE IF ~isInt /\ ~isStr THEN "ValueError"
        ELSE IF op = "get" /\ isStr /\ ~HasKey(e, index.s) THEN "KeyError"
        ELSE IF isInt /\ (i < -n \/ i >= n) THEN "IndexError"
        ELSE ""

\* C19: an indexed get or set raises what the contract table names for its
\* case (SyntaxError on a non-directory; ValueError for an int index on a
\* Dict, a str index on an Array and an index of another type; KeyError for
\* the get of an absent key; IndexError for a position outside the Array),
\* and an operation that raised left the children and the key index of the
\* element as they were.
C19_IndexContract ==
    outcome.op \in {"get", "set"} =>
        /\ TableError(outcome.op, subject, opArgs.index) # ""
              => outcome.err = TableError(outcome.op, subject, opArgs.index)
        /\ outcome.err # "ok"
              => /\ outcome.node.children = subject.children
                 /\ outcome.node.dictitems = subject.dictitems

C19_Witness ==
    /\ outcome.op = "get"
    /\ outcome.err = "KeyError"
    /\ subject.tag = "dict"
    /\ Len(subject.children) = 2 * MaxLen
    /\ opArgs.index.type = "str"

\* the values an element of the tag takes as its text
Accepted(tag, value) ==
    IF tag = "date" THEN value.type \in {"date", "datetime"}
    ELSE IF tag \in {"integer", "real"}
         THEN \/ value.type \in {"int", "float", "bool"}
              \/ value.type = "str" /\ FloatAccepts(value.s)
    ELSE IF tag = "data" THEN value.type \in {"bytes", "bytearray"}
    ELSE value.type = "str"

\* the text is what the element of the tag is to hold for the accepted value:
\* the ISO-8601 form, a decimal string of the number, the base64 form, the
\* string itself
StoredFor(tag, value, text) ==
    IF tag = "date" THEN text = IsoFormat(value.q)
    ELSE IF tag \in {"integer", "real"}
         THEN /\ FloatAccepts(text)
              /\ value.type = "str" => text = value.s
              /\ value.type \in {"int", "float"}
                    => StrToFloat(text).val = IF value.type = "int" THEN 10 * value.n
                                              ELSE value.n
              /\ value.type = "bool" => StrToFloat(text).val = IF value.b THEN 10 ELSE 0
    ELSE IF tag = "data" THEN b64decode(text) = [err |-> "ok", val |-> value.q]
    ELSE text = value.s

\* what the setting op of a text asks of the element before and after it
TextContract(op, before, after) ==
    (/\ op.op \in {"new", "text"}
     /\ op.tag \in {"date", "integer", "real", "data", "string", "key"}
     /\ ~IsBlankValue(op.value))
    => /\ op.err = "ok" <=> Accepted(op.tag, op.value)
       /\ op.err = "ok" => StoredFor(op.tag, op.value, after.text)
       /\ op.err # "ok" /\ op.op = "text" => after = before

\* C20: a construction with a non-empty text, or the assignment of one, to an
\* element of a leaf kind succeeds exactly for the values the kind accepts and
\* then stores the form the kind asks for (ISO-8601 for a date, a decimal
\* string for a number, base64 for bytes, the string itself otherwise); an
\* assignment that fails leaves the element as it was.
C20_TextValidatedByKind ==
    [][TextContract(textOp', text_element, text_element')]_vars

\* the same for every value but a bool
C20_TextValidatedButBool ==
    [][textOp'.value.type # "bool" => TextContract(textOp', text_element, text_element')]_vars

BuildScalars ==
    {NInt(7), NStr(<<"x">>), NBool(FALSE), NBytes(<<0>>), NNone,
     NTuple(<<>>), NTuple(<<NInt(1)>>), NTuple(<<NInt(1), NInt(2)>>)}

BuildItems ==
    BuildScalars \cup Containers({NInt(7), NNone, NTuple(<<NInt(1), NInt(2)>>)}, 1)

InitBuild ==
    /\ NamespaceInit
    /\ TreeInit
    /\ ParserIdle
    /\ ValidatorIdle
    /\ TextIdle
    /\ IndexIdle
    /\ MergeIdle
    /\ \/ csource \in BuildScalars
       \/ \E k \in 0..MaxItems :
             \E items \in [1..k -> BuildItems] :
                \/ csource = NList(items)
                \/ \E ks \in KeyOrders(k) : csource = NDict(ks, items)
    /\ cflags = [validate_dicts |-> TRUE, decode_data |-> FALSE]
    /\ cfirst = NoElement
    /\ cnative = NNone
    /\ csecond = NoElement
    /\ cstate = "start"
    /\ cerr = "ok"

NextBuild == FromDict

SpecBuild == InitBuild /\ [][NextBuild]_vars

SupportedScalars == {"bool", "int", "float", "str", "bytes", "bytearray", "date", "datetime"}

\* the value is of a supported type, and so is every value in it
RECURSIVE Supported(_)
Supported(v) ==
    \/ v.type \in SupportedScalars
    \/ /\ v.type \in {"list", "dict"}
       /\ \A i \in DOMAIN v.items : Supported(v.items[i])

\* the element e is the conversion of the value v: a Dict of the keys of v in
\* their order, each followed by the conversion of its value, an Array of the
\* conversions of the items of v in their order, a leaf of the kind of v
RECURSIVE ConversionOf(_, _)
ConversionOf(v, e) ==
    IF v.type = "dict"
    THEN /\ InKind(e.tag, "dict")
         /\ Len(e.children) = 2 * Len(v.keys)
         /\ \A i \in DOMAIN v.keys :
               /\ IsKeyNode(e.children[2 * i - 1])
               /\ e.children[2 * i - 1].text = v.keys[i]
               /\ ConversionOf(v.items[i], e.children[2 * i])
    ELSE IF v.type = "list"
    THEN /\ InKind(e.tag, "array")
         /\ Len(e.children) = Len(v.items)
         /\ \A i \in DOMAIN v.items : ConversionOf(v.items[i], e.children[i])
    ELSE /\ e.children = <<>>
         /\ e.tag = CASE v.type = "bool" -> IF v.b THEN "true" ELSE "false"
                      [] v.type = "int" -> "integer"
                      [] v.type = "float" -> "real"
                      [] v.type = "str" -> "string"
                      [] v.type \in {"bytes", "bytearray"} -> "data"
                      [] v.type \in {"date", "datetime"} -> "date"
                      [] OTHER -> "none"

\* what fromdict is to have done with the source once it has run
BuildContract ==
    cstate \in {"built", "raised"} =>
        IF csource.type \in {"list", "dict"} /\ Supported(csource)
        THEN cstate = "built" /\ ConversionOf(csource, cfirst)
        ELSE cstate = "raised" /\ cerr = "ValueError"

\* C22: fromdict turns a dict into a Dict with its keys in their order, each
\* followed by the conversion of its value, and a list into an Array of the
\* conversions of its items in their order; it raises ValueError for a value
\* of an unsupported type at any depth and for a source that is neither a
\* dict nor a list.
C22_OrderKeptOrValueError ==
    BuildContract

\* a tuple is in the value, at any depth
RECURSIVE HasTuple(_)
HasTuple(v) ==
    \/ v.type = "tuple"
    \/ \E i \in DOMAIN v.items : HasTuple(v.items[i])

\* the same for the sources that hold no tuple
C22_OrderKeptOrValueErrorNoTuple ==
    ~HasTuple(csource) => BuildContract

\* what todict gives for the Array that holds the element alone
AsSoleChild(e) ==
    todict(WithChildren("array", <<e>>), cflags.validate_dicts, cflags.decode_data)

\* C23: todict of an element that is not a Dict or an Array returns the list
\* of one item that todict returns for the Array holding that element alone:
\* the int of an Integer, the float of a Real, the date of a Date, the bool of
\* a True or False, the bytes or the base64 text of a Data, the text of any
\* other element.
C23_LeafRootAsSoleChild ==
    cstate = "dumped" /\ ~isdirectory(cfirst)
        => [err |-> "ok", val |-> cnative] = AsSoleChild(cfirst)

\* the same for the leaves whose native value is their text
C23_TextRootAsSoleChild ==
    cstate = "dumped" /\ cfirst.tag \in {"string", "key"}
        => [err |-> "ok", val |-> cnative] = AsSoleChild(cfirst)

\* ------------------------------------------------------------------------
\* Scenario 11 (SpecEmit): any number of updatekeys calls, then fromdict of
\* a source and a keyed assignment on an empty Dict, under the namespace the
\* calls have left.
\* ------------------------------------------------------------------------

EmitSource == NDict(<<<<"a">>>>, <<NList(<<NInt(7), NBool(TRUE), NStr(<<"x">>)>>)>>)

InitEmit ==
    /\ NamespaceInit
    /\ TreeInit
    /\ ParserIdle
    /\ ValidatorIdle
    /\ TextIdle
    /\ MergeIdle
    /\ csource = EmitSource
    /\ cflags = [validate_dicts |-> TRUE, decode_data |-> FALSE]
    /\ cfirst = NoElement
    /\ cnative = NNone
    /\ csecond = NoElement
    /\ cstate = "start"
    /\ cerr = "ok"
    /\ subject = Element(SubjectId, "dict")
    /\ opArgs \in [index : {NStr(KeyNames[1])}, value : Values]
    /\ outcome = [op |-> "ready", err |-> "ok", node |-> subject, val |-> NoElement]

\* updatekeys(defs) before anything is created
UpdateKeysFirst ==
    /\ cstate = "start"
    /\ outcome.op = "ready"
    /\ UpdateKeys

NextEmit ==
    \/ UpdateKeysFirst
    \/ FromDict
    \/ SetIndex

SpecEmit == InitEmit /\ [][NextEmit]_vars

\* the first tag of the kind in the namespace as it is
FirstTag(kind) == DEFAULT_KEY_IDS[kind][1]

\* the element built for the value carries the first tag of its kind, and so
\* does every element below it
RECURSIVE EmittedFor(_, _)
EmittedFor(v, e) ==
    IF v.type = "dict"
    THEN /\ e.tag = FirstTag("dict")
         /\ Len(e.children) = 2 * Len(v.keys)
         /\ \A i \in DOMAIN v.keys :
               /\ e.children[2 * i - 1].tag = FirstTag("key")
               /\ EmittedFor(v.items[i], e.children[2 * i])
    ELSE IF v.type = "list"
    THEN /\ e.tag = FirstTag("array")
         /\ Len(e.children) = Len(v.items)
         /\ \A i \in DOMAIN v.items : EmittedFor(v.items[i], e.children[i])
    ELSE e.tag = FirstTag(CASE v.type = "bool" -> IF v.b THEN "true" ELSE "false"
                            [] v.type = "int" -> "int"
                            [] v.type = "float" -> "float"
                            [] v.type = "str" -> "string"
                            [] v.type \in {"bytes", "bytearray"} -> "data"
                            [] v.type \in {"date", "datetime"} -> "date")

\* C24: after any updatekeys calls, every element fromdict has built carries
\* the first tag of the current list of its kind, and so does the NSKey a
\* keyed assignment on a Dict has created.
C24_FirstAliasEmitted ==
    /\ cstate = "built" => EmittedFor(csource, cfirst)
    /\ outcome.op = "set" /\ outcome.err = "ok"
          => /\ Len(outcome.node.children) = 2
             /\ outcome.node.children[1].tag = FirstTag("key")
             /\ outcome.node.children[1].text = opArgs.index.s

C24_Witness ==
    /\ cstate = "built"
    /\ outcome.op = "set" /\ outcome.err = "ok"
    /\ DEFAULT_KEY_IDS["int"] = <<"num", "integer">>
    /\ DEFAULT_KEY_IDS["key"] = <<"k">>
    /\ \E n \in Nodes(cfirst) : n.tag = "num"

\* ------------------------------------------------------------------------
\* Scenario 12 (SpecInit): PlistElement(tag, text, attribs, parsedobj) for
\* every tag, text, kind of attribs and both values of parsedobj, under the
\* initial namespace and under the one updatekeys({'uid': ['unknown']}) leaves.
\* ------------------------------------------------------------------------

\* an empty dict, a dict of one attribute, None and a list of pairs
Attribs ==
    {NDict(<<>>, <<>>), NDict(<<<<"v">>>>, <<NStr(<<"1">>)>>), NNone,
     NList(<<NStr(<<"v">>)>>)}

InitInit ==
    /\ \E defs \in {<<>>, [k \in {"uid"} |-> <<"unknown">>]} :
          /\ newdefs = defs
          /\ DEFAULT_KEY_IDS = updatekeys(InitialKeyIds, defs).ids
          /\ DEFAULT_KEYS = updatekeys(InitialKeyIds, defs).keys
    /\ TreeInit
    /\ ParserIdle
    /\ ConvertIdle
    /\ ValidatorIdle
    /\ IndexIdle
    /\ AttribInit
    /\ text_element = NoElement
    /\ textOp = [op |-> "none", tag |-> "", value |-> NNone, err |-> "ok"]

\* text_element = PlistElement(tag, value, attribs, parsedobj)
ConstructWith ==
    /\ textOp.op = "none"
    /\ \E tag \in TextTags, value \in TextValues, attribs \in Attribs, parsedobj \in BOOLEAN :
          LET r == __init__(1, tag, value, attribs, parsedobj)
          IN  /\ r.err # "Unmodelled"
              /\ text_element' = r.node
              /\ textOp' = [op |-> "init", tag |-> tag, value |-> value, err |-> r.err,
                            attribs |-> attribs, parsedobj |-> parsedobj]
    /\ UNCHANGED <<dict_objects, attrib>>
    /\ UNCHANGED <<namespaceVars, treeVars, parserVars, tokenizerVars, convertVars,
                   validatorVars, indexVars, mergeVars>>

NextInit == ConstructWith

SpecInit == InitInit /\ [][NextInit]_vars

\* C25: the constructor raises (ValueError) for a tag that is not in the
\* current flat list of tags and for attribs that is not a dict, and then
\* creates nothing; with parsedobj set, a known tag and a dict it raises
\* nothing whatever the text given and creates the element with empty text.
C25_ConstructorChecks ==
    textOp.op = "init" =>
        LET known == \E i \in DOMAIN DEFAULT_KEYS : DEFAULT_KEYS[i] = textOp.tag
            mapping == textOp.attribs.type = "dict"
        IN  /\ ~known \/ ~mapping
               => textOp.err = "ValueError" /\ text_element = NoElement
            /\ known /\ mapping /\ textOp.parsedobj
               => /\ textOp.err = "ok"
                  /\ text_element.tag = textOp.tag
                  /\ text_element.text = <<>>

C25_Witness ==
    /\ textOp.op = "init"
    /\ textOp.parsedobj
    /\ textOp.tag = "dict"
    /\ textOp.value = NStr(<<"x">>)
    /\ textOp.attribs.type = "dict"
    /\ textOp.err = "ok"
    /\ text_element.tag = "dict" /\ text_element.text = <<>>

\* ------------------------------------------------------------------------
\* Scenario 13 (SpecString): tostring(element, plist_attrs, xml_declaration,
\* short_empty_elements) of a leaf, or of a Dict or an Array of up to MaxLen
\* children, with no attribute, one or two.
\* ------------------------------------------------------------------------

PlistAttrs ==
    {NDict(<<>>, <<>>),
     NDict(<<<<"y", "e", "s">>>>, <<NStr(<<"n", "o">>)>>),
     NDict(<<<<"y", "e", "s">>, <<"o", "n", "e">>>>, <<NStr(<<"n", "\"", "o">>), NStr(<<"1">>)>>),
     NDict(<<<<"o", "n", "e">>, <<"y", "e", "s">>>>, <<NStr(<<>>), NStr(<<"\"">>)>>)}

Declarations == {"", "ver", "enc", "VER"}

StringChildren ==
    TreeLeaves \cup TreeDirectories
    \cup {Leaf("string", NStr(<<"a", "&", "<">>)), Leaf("string", NStr(<<>>))}

InitString ==
    /\ NamespaceInit
    /\ TreeInit
    /\ ParserIdle
    /\ ValidatorIdle
    /\ TextIdle
    /\ IndexIdle
    /\ MergeIdle
    /\ csource = NNone
    /\ cflags \in [plist_attrs : PlistAttrs, xml_declaration : Declarations,
                   short_empty_elements : BOOLEAN]
    /\ \/ cfirst \in TreeRoots
       \/ \E k \in 0..MaxLen :
             \E children \in [1..k -> StringChildren] :
                \E tag \in {"dict", "array"} : cfirst = WithChildren(tag, children)
    /\ cnative = NNone
    /\ csecond = NoElement
    /\ cstate = "built"
    /\ cerr = "ok"

\* tostring(element, plist_attrs, xml_declaration, short_empty_elements)
ToXmlString ==
    /\ cstate = "built"
    /\ cnative' = NStr(tostring(cfirst, cflags.plist_attrs, cflags.xml_declaration,
                                cflags.short_empty_elements))
    /\ cstate' = "printed"
    /\ UNCHANGED <<csource, cflags, cfirst, csecond, cerr>>
    /\ UNCHANGED <<namespaceVars, treeVars, parserVars, tokenizerVars, validatorVars,
                   textVars, indexVars, mergeVars>>

NextString == ToXmlString

SpecString == InitString /\ [][NextString]_vars

\* the value with a backslash put before each of its double quotes
RECURSIVE Backslashed(_, _)
Backslashed(v, n) ==
    IF n = 0 THEN <<>>
    ELSE Backslashed(v, n - 1) \o (IF v[n] = "\"" THEN <<"\\\"">> ELSE <<v[n]>>)

\* the text of the first n attributes, in the order of the mapping
RECURSIVE AttrsText(_, _)
AttrsText(attrs, n) ==
    IF n = 0 THEN <<>>
    ELSE AttrsText(attrs, n - 1)
             \o <<" ">> \o attrs.keys[n] \o <<"=\"">>
             \o Backslashed(attrs.items[n].s, Len(attrs.items[n].s)) \o <<"\"">>

DeclarationText(xml_declaration) ==
    CASE xml_declaration = "ver" -> <<"<?xml version=\"1.0\"?>">>
      [] xml_declaration = "enc" -> <<"<?xml version=\"1.0\" encoding=\"UTF-8\"?>">>
      [] OTHER -> <<>>

C27_TokenizerFailureIsSyntaxError ==
    [][/\ ExpatError
          => pstate' = "raised" /\ perr' = "SyntaxError" /\ result' = NoElement
       /\ pstate = "raised" => pstate' = "raised" /\ result' = NoElement]_vars

\* without validation SyntaxError has no other origin than the tokenizer
C27_Witness ==
    /\ pstate = "raised"
    /\ perr = "SyntaxError"
    /\ ~_validate_dicts
    /\ result = NoElement

\* ------------------------------------------------------------------------
\* Scenario 14 (SpecEvents): the parser of scenario 2 on documents of up to
\* EventStarts elements (a Dict, a Boolean and every kind that takes text),
\* with the wrapper in three spellings and with character data that is
\* blank, a padded number, base64, a date, a datetime or none of these.
\* ------------------------------------------------------------------------

EventStarts == 1
EventChunks == 1

EventTags ==
    {"plist", "Plist", "PLIST", "dict", "true", "key", "string", "integer", "real",
     "date", "data"}

EventTexts ==
    {<<" ", "\n">>, <<" ", "7", " ">>, <<"x">>, <<"Y", "W", "I", "=">>,
     IsoFormat(<<2012, 1, 2>>),
     \* "2000-12-31T23:59", a datetime written without its seconds
     SubSeq(IsoFormat(<<2000, 12, 31, 23, 59, 0>>), 1, 16)}

InitEvents ==
    /\ NamespaceInit
    /\ TreeInit
    /\ ParserStart(EventTags, EventTexts, EventStarts, EventChunks)
    /\ ConvertIdle
    /\ ValidatorIdle
    /\ TextIdle
    /\ IndexIdle
    /\ MergeIdle

NextEvents == NextParser

SpecEvents == InitEvents /\ [][NextEvents]_vars

\* the node on top of the open-element stack is of one of the kinds
TopOfKinds(kinds) ==
    /\ pstate = "parsing"
    /\ _orderelementlist # <<>>
    /\ \E kind \in kinds : InKind(_orderelementlist[Len(_orderelementlist)].tag, kind)

NonBlank(text) == \E i \in DOMAIN text : text[i] \notin {" ", "\n", "\t", "\r"}

\* the text between its first and its last character that is not whitespace
Trimmed(text) ==
    LET ink == {i \in DOMAIN text : text[i] \notin {" ", "\n", "\t", "\r"}}
        first == CHOOSE i \in ink : \A j \in ink : i <= j
        last == CHOOSE i \in ink : \A j \in ink : j <= i
    IN  IF ink = {} THEN <<>> ELSE SubSeq(text, first, last)

\* the handler returns and only the text of the top node differs, being text
StoresOnTop(r, text) ==
    /\ r.err = "ok"
    /\ r.stack = [_orderelementlist EXCEPT ![Len(_orderelementlist)].text = text]

\* the handler raises e and the stack is as it was
FailsWith(r, e) ==
    /\ r.err = e
    /\ r.stack = _orderelementlist

\* C28 as stated: in every parser state whose top node is a String, Key,
\* Integer or Real, every non-blank character data is stored trimmed as the
\* text of that node and nothing is raised.
C28_LiteralTextStored ==
    \A text \in alphabet.texts :
        TopOfKinds({"string", "key", "int", "float"}) /\ NonBlank(text)
            => StoresOnTop(_data(_orderelementlist, text), Trimmed(text))

\* C28, amended: a String or Key node stores every non-blank character data
\* trimmed; an Integer or Real node stores it trimmed when float() accepts it
\* and otherwise the event raises ValueError and the stack is as it was.
C28_LiteralTextStoredIfNumeric ==
    \A text \in alphabet.texts :
        LET r == _data(_orderelementlist, text)
        IN  /\ TopOfKinds({"string", "key"}) /\ NonBlank(text)
                => StoresOnTop(r, Trimmed(text))
            /\ TopOfKinds({"int", "float"}) /\ NonBlank(text)
                => IF FloatAccepts(Trimmed(text))
                   THEN StoresOnTop(r, Trimmed(text))
                   ELSE FailsWith(r, "ValueError")

\* an Integer node that has taken " 7 " as "7"
C28_Witness ==
    /\ TopOfKinds({"int"})
    /\ _orderelementlist[Len(_orderelementlist)].text = <<"7">>

\* "YYYY-MM-DDTHH", "YYYY-MM-DDTHH:MM" or "YYYY-MM-DDTHH:MM:SS"
IsIsoDateTime(text) ==
    /\ Len(text) >= 13
    /\ text[11] = "T"
    /\ IsIsoDay(SubSeq(text, 1, 10))
    /\ IsIsoTime(SubSeq(text, 12, Len(text)))

\* C29: in every parser state whose top node is a Date, non-blank character
\* data that reads trimmed as an ISO date is stored as that date's ISO
\* string, data that reads as an ISO datetime is stored as that datetime's
\* ISO string, and other data raises ValueError; when the top node is a
\* Data, data matching the base64 pattern is stored trimmed and unchanged,
\* and other data raises ValueError. A raising event leaves the stack, the
\* node's text included, as it was.
C29_DateParsedDataValidated ==
    \A text \in alphabet.texts :
        LET r == _data(_orderelementlist, text)
            t == Trimmed(text)
        IN  /\ TopOfKinds({"date"}) /\ NonBlank(text)
                => IF IsIsoDay(t)
                   THEN StoresOnTop(r, IsoFormat(IsoDay(t)))
                   ELSE IF IsIsoDateTime(t)
                   THEN StoresOnTop(r, IsoFormat(IsoDay(SubSeq(t, 1, 10))
                                                  \o IsoTime(SubSeq(t, 12, Len(t)))))
                   ELSE FailsWith(r, "ValueError")
            /\ TopOfKinds({"data"}) /\ NonBlank(text)
                => IF b64check(t)
                   THEN StoresOnTop(r, t)
                   ELSE FailsWith(r, "ValueError")

\* a Date node that has taken "2000-12-31T23:59" and holds the ISO string of
\* the datetime, seconds included, while the alphabet has texts it refuses
C29_Witness ==
    /\ TopOfKinds({"date"})
    /\ _orderelementlist[Len(_orderelementlist)].text = IsoFormat(<<2000, 12, 31, 23, 59, 0>>)
    /\ \E text \in alphabet.texts :
          _data(_orderelementlist, text).err = "ValueError"

\* the spellings of the wrapper's name in the documents
WrapperNames == {"plist", "Plist", "PLIST"}

\* C30: in every parser state, the empty stack included, a StartTag that
\* names the wrapper in any spelling returns with the open-element stack as
\* it was, no node being pushed, and character data that is blank returns
\* with the stack, and so the text of every node on it, as it was.
C30_IgnorableEventsChangeNothing ==
    pstate = "parsing" =>
        /\ \A tag \in alphabet.tags \cap WrapperNames :
               _start(_orderelementlist, created + 1, tag)
                   = [err |-> "ok", stack |-> _orderelementlist]
        /\ \A text \in alphabet.texts :
               ~NonBlank(text) =>
                   _data(_orderelementlist, text)
                       = [err |-> "ok", stack |-> _orderelementlist]

\* <Plist> has been opened and has taken blank character data: no node was
\* made, the stack is empty and the parse goes on
C30_Witness ==
    /\ pstate = "parsing"
    /\ Len(docStack) = 1
    /\ docStack[1].tag = "Plist"
    /\ docStack[1].text # <<>>
    /\ ~NonBlank(docStack[1].text)
    /\ _orderelementlist = <<>>
    /\ created = 0

\* ------------------------------------------------------------------------
\* Scenario 15 (SpecWalk): list(subject.iter(tag)) on the trees of scenario
\* 9, every element being an object of its own, for no tag, "*", tags that
\* occur in the tree and a tag that does not; the call may be made again.
\* ------------------------------------------------------------------------

\* the objects of a tree: the root is 1 and child i of object p is 10 * p + i
RECURSIVE Labelled(_, _)
Labelled(e, id) ==
    [e EXCEPT !.id = id,
              !.children = [i \in DOMAIN e.children |-> Labelled(e.children[i], 10 * id + i)]]

IterTags ==
    {NNone, NStr(<<"*">>), NStr(<<"key">>), NStr(<<"dict">>), NStr(<<"array">>),
     NStr(<<"data">>), NStr(<<"plist">>), NInt(0)}

InitWalk ==
    /\ NamespaceInit
    /\ TreeInit
    /\ ParserIdle
    /\ ConvertIdle
    /\ ValidatorIdle
    /\ TextIdle
    /\ MergeIdle
    /\ \/ \E e \in TreeRoots : subject = Labelled(e, 1)
       \/ \E k \in 0..MaxTreeChildren :
             \E children \in [1..k -> TreeLeaves \cup TreeDirectories] :
                \E tag \in {"dict", "array"} :
                   subject = Labelled(WithChildren(tag, children), 1)
    /\ opArgs = [index |-> NNone, value |-> NoElement]
    /\ outcome = [op |-> "ready", err |-> "ok", node |-> subject, val |-> NoElement]

\* list(subject.iter(tag))
Iterate ==
    /\ \E tag \in IterTags :
          /\ opArgs' = [index |-> tag, value |-> NoElement]
          /\ outcome' = [op |-> "iter", err |-> "ok", node |-> subject,
                         val |-> NoElement, seq |-> iter(subject, tag)]
    /\ UNCHANGED subject
    /\ UNCHANGED <<namespaceVars, treeVars, parserVars, tokenizerVars, convertVars,
                   validatorVars, textVars, mergeVars>>

NextWalk == Iterate

SpecWalk == InitWalk /\ [][NextWalk]_vars

\* the filter lets the element through
Matches(e, tag) == tag \in {NNone, NStr(<<"*">>)} \/ tag = NStr(<<e.tag>>)

\* the positions leading from the root to the object id
RECURSIVE PathOf(_)
PathOf(id) == IF id < 10 THEN <<>> ELSE Append(PathOf(id \div 10), id % 10)

\* a is an ancestor of b, or where their paths part a's goes to the earlier child
PreOrderBefore(a, b) ==
    LET pa == PathOf(a.id)
        pb == PathOf(b.id)
    IN  \/ Len(pa) < Len(pb) /\ SubSeq(pb, 1, Len(pa)) = pa
        \/ \E k \in 1..Len(pa) :
              /\ k <= Len(pb)
              /\ SubSeq(pa, 1, k - 1) = SubSeq(pb, 1, k - 1)
              /\ pa[k] < pb[k]

\* C31: each call of iter on a tree returns a finite sequence that holds
\* exactly the elements of the tree the filter lets through (all of them for
\* no filter and for "*"), each once, the element before its sub-nodes and
\* the sub-nodes in children order (pre-order); the tree is as it was, and
\* a second call with the same filter returns the same sequence.
C31_PreOrderOnce ==
    [][outcome'.op = "iter" =>
        LET r == outcome'.seq
            tag == opArgs'.index
        IN  /\ subject' = subject
            /\ outcome'.node = subject
            /\ Range(r) = {e \in Nodes(subject) : Matches(e, tag)}
            /\ \A i, j \in DOMAIN r : i < j => PreOrderBefore(r[i], r[j])
            /\ (tag \in {NNone, NStr(<<"*">>)} /\ r # <<>>) => r[1] = subject
            /\ (outcome.op = "iter" /\ opArgs' = opArgs) => r = outcome.seq]_vars

\* the unfiltered sequence of an Array holding a Dict and its Key: three
\* levels, each element before those below it
C31_Witness ==
    /\ outcome.op = "iter"
    /\ opArgs.index = NNone
    /\ Len(outcome.seq) >= 4
    /\ outcome.seq[1] = subject
    /\ \E i \in DOMAIN outcome.seq :
          /\ outcome.seq[i].tag = "dict"
          /\ outcome.seq[i].id > 100
          /\ outcome.seq[i + 1] = outcome.seq[i].children[1]

\* ------------------------------------------------------------------------
\* Scenario 16 (SpecKinds): elements are constructed under the namespace as
\* it is at import; then updatekeys is called any number of times and
\* isdirectory, isbool, a text assignment, subject[0], subject[key] = value
\* or subject.append(value) is called on the element.
\* ------------------------------------------------------------------------

\* updates that take a tag away from its kind, give a kind a tag of another
\* kind, or name the kind's tags as they are
KindDefs ==
    {[k \in {"array"} |-> <<"list">>], [k \in {"array"} |-> <<"array", "string">>],
     [k \in {"array"} |-> <<"array">>],
     [k \in {"int"} |-> <<"num">>], [k \in {"int"} |-> <<"integer">>],
     [k \in {"true"} |-> <<"yes">>], [k \in {"true"} |-> <<"true">>]}

\* what the calls answer for the element e under the namespace as it is
AnswersFor(e, value) ==
    [isdirectory |-> isdirectory(e),
     isbool |-> isbool(e),
     text |-> SetText(e, NStr(<<"x">>)).err,
     get |-> __getitem__(e, NInt(0)).err,
     set |-> __setitem__(e, NStr(KeyNames[1]), value).err,
     append |-> append(e, OneElement(value)).err]

InitKinds ==
    /\ NamespaceInit
    /\ TreeInit
    /\ ParserIdle
    /\ ConvertIdle
    /\ ValidatorIdle
    /\ TextIdle
    /\ MergeIdle
    /\ \/ subject = ArrayOf(<<Value(1)>>)
       \/ subject = DictOf(<<Value(1)>>, 1)
       \/ \E tag \in {"array", "dict", "true", "false", "integer", "string"} :
             subject = Element(SubjectId, tag)
    /\ \E value \in Values :
          opArgs = [index |-> NInt(0), value |-> value, born |-> AnswersFor(subject, value)]
    /\ outcome = [op |-> "ready", err |-> "ok", node |-> subject, val |-> NoElement]

\* updatekeys(defs) while the element is held
UpdateKinds ==
    /\ outcome.op = "ready"
    /\ \E defs \in KindDefs :
          LET r == updatekeys(DEFAULT_KEY_IDS, defs)
          IN  /\ DEFAULT_KEY_IDS' = r.ids
              /\ DEFAULT_KEYS' = r.keys
              /\ newdefs' = defs
    /\ UNCHANGED <<treeVars, parserVars, tokenizerVars, convertVars, validatorVars,
                   textVars, indexVars>>

\* isdirectory(subject)
IsDirectory ==
    /\ outcome.op = "ready"
    /\ outcome' = [op |-> "isdirectory", err |-> "ok", node |-> subject,
                   val |-> NoElement, ans |-> isdirectory(subject)]
    /\ UNCHANGED <<subject, opArgs>>
    /\ UNCHANGED <<namespaceVars, treeVars, parserVars, tokenizerVars, convertVars,
                   validatorVars, textVars, mergeVars>>

\* isbool(subject)
IsBool ==
    /\ outcome.op = "ready"
    /\ outcome' = [op |-> "isbool", err |-> "ok", node |-> subject,
                   val |-> NoElement, ans |-> isbool(subject)]
    /\ UNCHANGED <<subject, opArgs>>
    /\ UNCHANGED <<namespaceVars, treeVars, parserVars, tokenizerVars, convertVars,
                   validatorVars, textVars, mergeVars>>

\* subject.text = 'x'
AssignTextToSubject ==
    /\ outcome.op = "ready"
    /\ LET r == SetText(subject, NStr(<<"x">>))
       IN  outcome' = [op |-> "text", err |-> r.err, node |-> r.node, val |-> NoElement]
    /\ UNCHANGED <<subject, opArgs>>
    /\ UNCHANGED <<namespaceVars, treeVars, parserVars, tokenizerVars, convertVars,
                   validatorVars, textVars, mergeVars>>

\* subject.append(value)
AppendOne ==
    /\ outcome.op = "ready"
    /\ LET r == append(subject, OneElement(opArgs.value))
       IN  outcome' = [op |-> "append", err |-> r.err, node |-> r.node, val |-> NoElement]
    /\ UNCHANGED <<subject, opArgs>>
    /\ UNCHANGED <<namespaceVars, treeVars, parserVars, tokenizerVars, convertVars,
                   validatorVars, textVars, mergeVars>>

\* subject[KeyNames[1]] = value
SetKey ==
    /\ outcome.op = "ready"
    /\ LET r == __setitem__(subject, NStr(KeyNames[1]), opArgs.value)
       IN  outcome' = [op |-> "set", err |-> r.err, node |-> r.node, val |-> NoElement]
    /\ UNCHANGED <<subject, opArgs>>
    /\ UNCHANGED <<namespaceVars, treeVars, parserVars, tokenizerVars, convertVars,
                   validatorVars, textVars, mergeVars>>

NextKinds ==
    \/ UpdateKinds
    \/ IsDirectory
    \/ IsBool
    \/ AssignTextToSubject
    \/ GetIndex
    \/ SetKey
    \/ AppendOne

SpecKinds == InitKinds /\ [][NextKinds]_vars

\* C32: whatever updatekeys calls were made since an element was
\* constructed, isdirectory and isbool answer for it what they answered at
\* construction, and a text assignment, subject[0], subject[key] = value and
\* subject.append(value) succeed or fail as they did at construction.
C32_KindStableAcrossMerges ==
    /\ outcome.op \in {"isdirectory", "isbool"} => outcome.ans = opArgs.born[outcome.op]
    /\ outcome.op \in {"text", "get", "set", "append"} => outcome.err = opArgs.born[outcome.op]

\* the same with no call of updatekeys that changes the namespace
C32_KindStableWithoutMerges ==
    DEFAULT_KEY_IDS = InitialKeyIds => C32_KindStableAcrossMerges

\* ------------------------------------------------------------------------
\* Scenario 17 (SpecAttrib): up to MaxElements elements are constructed,
\* with no attribs argument or with a dict of their own (as the caller's
\* literal or expat's attr_list is), and e.attrib[k] = v and del e.attrib[k]
\* are called on them in any order.
\* ------------------------------------------------------------------------

MaxElements == 2

AttrKeys == {<<"x">>}
AttrValues == {NStr(<<"1">>), NStr(<<"2">>)}

\* stands for an argument that is left out
LeftOut == [NNone EXCEPT !.type = "left out"]

\* the attribs argument: left out, or a new dict
AttribsGiven == {LeftOut, NDict(<<>>, <<>>), NDict(<<<<"x">>>>, <<NStr(<<"1">>)>>)}

\* del d[key] on a native dict that has the key
DictDel(d, key) ==
    LET i == CHOOSE i \in DOMAIN d.keys : d.keys[i] = key
    IN  [d EXCEPT !.keys = RemoveAt(@, i), !.items = RemoveAt(@, i)]

\* PlistElement.items(): self.attrib.items() of element number i
items(i) == LET d == dict_objects[attrib[i]] IN [p \in DOMAIN d.keys |-> <<d.keys[p], d.items[p]>>]

InitAttrib ==
    /\ NamespaceInit
    /\ TreeInit
    /\ ParserIdle
    /\ ConvertIdle
    /\ ValidatorIdle
    /\ IndexIdle
    /\ MergeIdle
    /\ AttribInit
    /\ text_element = NoElement
    /\ textOp = [op |-> "none", tag |-> "", value |-> NNone, err |-> "ok"]

\* PlistElement(tag) or PlistElement(tag, attribs = {...}): line 105,
\* `self.attrib = attribs`, binds the dict object, it does not copy it
NewElement ==
    /\ Len(attrib) < MaxElements
    /\ \E tag \in {"dict", "string"}, given \in AttribsGiven :
          LET r == IF given = LeftOut
                   THEN __init__(Len(attrib) + 1, tag, NStr(<<>>), dict_objects[1], FALSE)
                   ELSE __init__(Len(attrib) + 1, tag, NStr(<<>>), given, FALSE)
          IN  /\ r.err = "ok"
              /\ text_element' = r.node
              /\ IF given = LeftOut
                 THEN attrib' = Append(attrib, 1) /\ UNCHANGED dict_objects
                 ELSE /\ dict_objects' = Append(dict_objects, given)
                      /\ attrib' = Append(attrib, Len(dict_objects) + 1)
              /\ textOp' = [op |-> "new", tag |-> tag, value |-> NStr(<<>>), err |-> "ok",
                            target |-> Len(attrib) + 1]
    /\ UNCHANGED <<namespaceVars, treeVars, parserVars, tokenizerVars, convertVars,
                   validatorVars, indexVars, mergeVars>>

\* e.attrib[key] = value for element number i
SetAttribute ==
    /\ \E i \in DOMAIN attrib, key \in AttrKeys, value \in AttrValues :
          /\ dict_objects' = [dict_objects EXCEPT ![attrib[i]] = DictPut(@, key, value)]
          /\ textOp' = [op |-> "setattrib", tag |-> "", value |-> value, err |-> "ok",
                        target |-> i]
    /\ UNCHANGED <<text_element, attrib>>
    /\ UNCHANGED <<namespaceVars, treeVars, parserVars, tokenizerVars, convertVars,
                   validatorVars, indexVars, mergeVars>>

\* del e.attrib[key] for element number i
DelAttribute ==
    /\ \E i \in DOMAIN attrib, key \in AttrKeys :
          IF key \in Range(dict_objects[attrib[i]].keys)
          THEN /\ dict_objects' = [dict_objects EXCEPT ![attrib[i]] = DictDel(@, key)]
               /\ textOp' = [op |-> "delattrib", tag |-> "", value |-> NNone, err |-> "ok",
                             target |-> i]
          ELSE /\ UNCHANGED dict_objects
               /\ textOp' = [op |-> "delattrib", tag |-> "", value |-> NNone,
                             err |-> "KeyError", target |-> i]
    /\ UNCHANGED <<text_element, attrib>>
    /\ UNCHANGED <<namespaceVars, treeVars, parserVars, tokenizerVars, convertVars,
                   validatorVars, indexVars, mergeVars>>

NextAttrib ==
    \/ NewElement
    \/ SetAttribute
    \/ DelAttribute

SpecAttrib == InitAttrib /\ [][NextAttrib]_vars

\* C33: adding, changing or removing an attribute of one element leaves the
\* attributes of every other element as they were, for elements constructed
\* with and without an attribs argument.
C33_AttributesIndependent ==
    [][textOp'.op \in {"setattrib", "delattrib"} =>
          \A j \in DOMAIN attrib : j # textOp'.target => items(j)' = items(j)]_vars

\* the same for two elements of which at least one was given its attribs
C33_AttributesIndependentIfGiven ==
    [][textOp'.op \in {"setattrib", "delattrib"} =>
          \A j \in DOMAIN attrib :
              (j # textOp'.target /\ (attrib[j] # 1 \/ attrib[textOp'.target] # 1))
                  => items(j)' = items(j)]_vars

\* the element of the document that the parsed element n was created for
DocElementOf(n) == CHOOSE d \in Nodes(doc) : d.id = n.id

\* C34: when parse returns, the text of every String and Key element of the
\* tree is the whole character content of its element in the document, that
\* is the chunks the tokenizer delivered for it, joined in their order.
C34_TextIsWholeContent ==
    pstate = "returned" =>
        \A n \in Nodes(result) :
            (InKind(n.tag, "string") \/ InKind(n.tag, "key"))
                => n.text = DocElementOf(n).text

\* the identities of a parsed element and of the elements below it
RECURSIVE Shape(_)
Shape(n) == [id |-> n.id, children |-> [i \in DOMAIN n.children |-> Shape(n.children[i])]]

\* the same for an element of the document, the elements that a wrapper
\* encloses standing in the wrapper's place
RECURSIVE DocShape(_)
RECURSIVE DocShapes(_, _)
DocShapes(children, i) ==
    IF i > Len(children) THEN <<>>
    ELSE (IF children[i].id = 0
          THEN DocShapes(children[i].children, 1)
          ELSE <<DocShape(children[i])>>) \o DocShapes(children, i + 1)

DocShape(d) == [id |-> d.id, children |-> DocShapes(d.children, 1)]

\* C35: when parse returns, every element of the tree has as children the
\* elements created for the elements directly enclosed by its own element
\* in the document (wrappers looked through), in document order, and no
\* others: nothing is attached to a sibling and a wrapper's EndTag attaches
\* nothing.
C35_TreeMirrorsNesting ==
    pstate = "returned" => Shape(result) = DocShape(DocElementOf(result))

\* the same for documents with no wrapper below the root and one element in
\* the root wrapper
C35_TreeMirrorsNestingOfPlainDocuments ==
    (/\ pstate = "returned"
     /\ \A d \in Nodes(doc) : d.id = 0 => (d = doc /\ Len(d.children) <= 1))
        => Shape(result) = DocShape(DocElementOf(result))

\* the Integer elements of the tree under e, e excluded: those todict converts
IntegersBelow(e) == {n \in Nodes(e) \ {e} : InKind(n.tag, "int")}

\* C36: todict of a Dict or an Array never fails on an Integer element whose
\* text the text setter accepted: the call does not end with the ValueError
\* of int(text); when it returns, every such element has become an int.
C36_AcceptedIntegerTextConverts ==
    (isdirectory(cfirst) /\ IntegersBelow(cfirst) # {} /\ cstate \in {"dumped", "raised"})
        => cerr # "ValueError"

\* ------------------------------------------------------------------------
\* Scenario 18 (SpecRound): fromstring(tostring(t), validate_dicts=True) of
\* an Array made with append or a Dict made with keyed assignments, of up to
\* MaxLen values.
\* ------------------------------------------------------------------------

IsEntity(item) == item \in {"&amp;", "&lt;", "&gt;"}

IsMarkup(item) ==
    item \in {"<", "</", ">", " />", "<plist", "</plist>",
              "<?xml version=\"1.0\"?>", "<?xml version=\"1.0\" encoding=\"UTF-8\"?>"}

\* the character an entity stands for
Unescape(item) ==
    CASE item = "&amp;" -> "&"
      [] item = "&lt;" -> "<"
      [] item = "&gt;" -> ">"
      [] OTHER -> item

\* the last position of the run of plain characters that holds position i
RECURSIVE RunEnd(_, _)
RunEnd(string, i) ==
    IF i < Len(string) /\ ~IsMarkup(string[i + 1]) /\ ~IsEntity(string[i + 1])
    THEN RunEnd(string, i + 1)
    ELSE i

\* what the expat parser of PlistXML.__init__ reports for the text of
\* tostring from position i on: StartElementHandler and EndElementHandler
\* per tag (both for an empty-element tag), CharacterDataHandler once per run
\* of plain characters and once per entity (buffer_text is left off); the
\* texts hold no newline, which would end a run too
RECURSIVE ExpatEvents(_, _)
ExpatEvents(string, i) ==
    IF i > Len(string) THEN <<>>
    ELSE LET item == string[i]
             event(kind, tag, data) == [kind |-> kind, tag |-> tag, data |-> data]
         IN  CASE item = "<plist" ->
                      <<event("start", "plist", <<>>)>> \o ExpatEvents(string, i + 2)
               [] item = "</plist>" ->
                      <<event("end", "plist", <<>>)>> \o ExpatEvents(string, i + 1)
               [] item = "<" ->
                      <<event("start", string[i + 1], <<>>)>>
                      \o (IF string[i + 2] = " />"
                          THEN <<event("end", string[i + 1], <<>>)>> ELSE <<>>)
                      \o ExpatEvents(string, i + 3)
               [] item = "</" ->
                      <<event("end", string[i + 1], <<>>)>> \o ExpatEvents(string, i + 3)
               [] IsEntity(item) ->
                      <<event("data", "", <<Unescape(item)>>)>> \o ExpatEvents(string, i + 1)
               [] IsMarkup(item) -> ExpatEvents(string, i + 1)
               [] OTHER ->
                      <<event("data", "", SubSeq(string, i, RunEnd(string, i)))>>
                      \o ExpatEvents(string, RunEnd(string, i) + 1)

\* PlistXML.parse, `self.parser.Parse(source, True)`: the stack after the
\* handlers have run on the events from position i on, made elements created
\* before
RECURSIVE Parse(_, _, _, _, _)
Parse(events, i, stack, validate_dicts, made) ==
    IF i > Len(events) THEN [err |-> "ok", stack |-> stack]
    ELSE LET ev == events[i]
             starts == ev.kind = "start" /\ Lower(ev.tag) # "plist"
             r == CASE ev.kind = "start" ->
                           _start(stack, IF starts THEN made + 1 ELSE 0, ev.tag)
                    [] ev.kind = "data" -> _data(stack, ev.data)
                    [] OTHER -> _end(stack, validate_dicts, ev.tag)
         IN  IF r.err # "ok" THEN r
             ELSE Parse(events, i + 1, r.stack, validate_dicts,
                        IF starts THEN made + 1 ELSE made)

\* fromstring(string, validate_dicts) == PlistXML().parse(string, validate_dicts)
fromstring(string, validate_dicts) ==
    LET parsed == Parse(ExpatEvents(string, 1), 1, <<>>, validate_dicts, 0)
    IN  IF parsed.err # "ok"
        THEN [err |-> except_expat_error(parsed.err), val |-> NoElement]
        ELSE ReturnRoot(parsed.stack)

\* the values put into the tree: plain, padded and escaped Strings, an empty
\* String, numbers, a Bool, a Date, a Data, and an Array and a Dict of one
\* String
RoundValues ==
    {Leaf("string", NStr(<<"a">>)), Leaf("string", NStr(<<" ", "a">>)),
     Leaf("string", NStr(<<"a", "&", "b">>)), Leaf("string", NStr(<<>>)),
     Leaf("integer", NInt(7)), Leaf("real", NFloat(25)), Leaf("true", NNone),
     Leaf("date", NDate(<<2012, 1, 2>>)), Leaf("data", NBytes(<<97, 98>>)),
     [ArrayOf(<<Leaf("string", NStr(<<"b">>))>>) EXCEPT !.id = 0],
     [DictOf(<<Leaf("string", NStr(<<"b">>))>>, 1) EXCEPT !.id = 0]}

InitRound ==
    /\ NamespaceInit
    /\ TreeInit
    /\ ParserIdle
    /\ ValidatorIdle
    /\ TextIdle
    /\ IndexIdle
    /\ MergeIdle
    /\ csource = NNone
    /\ cflags \in [plist_attrs : {NDict(<<>>, <<>>)}, xml_declaration : {"", "ver"},
                   short_empty_elements : BOOLEAN, validate_dicts : {TRUE}]
    /\ \E k \in 0..MaxLen :
          \E values \in [1..k -> RoundValues] :
             LET vs == [p \in 1..k |-> [values[p] EXCEPT !.id = p]]
             IN  cfirst \in {ArrayOf(vs), DictOf(vs, k)}
    /\ cnative = NNone
    /\ csecond = NoElement
    /\ cstate = "built"
    /\ cerr = "ok"

\* fromstring(string) of the text printed
FromString ==
    /\ cstate = "printed"
    /\ LET r == fromstring(cnative.s, cflags.validate_dicts)
       IN  /\ cerr' = r.err
           /\ csecond' = r.val
           /\ cstate' = IF r.err = "ok" THEN "rebuilt" ELSE "raised"
    /\ UNCHANGED <<csource, cflags, cfirst, cnative>>
    /\ UNCHANGED <<namespaceVars, treeVars, parserVars, tokenizerVars, validatorVars,
                   textVars, indexVars, mergeVars>>

NextRound == ToXmlString \/ FromString

SpecRound == InitRound /\ [][NextRound]_vars

\* same tags, texts, child order and key positions at every position
RECURSIVE SameTree(_, _)
SameTree(x, y) ==
    /\ x.tag = y.tag
    /\ x.text = y.text
    /\ x.dictitems = y.dictitems
    /\ Len(x.children) = Len(y.children)
    /\ \A p \in DOMAIN x.children : SameTree(x.children[p], y.children[p])

\* every text of the tree is free of &, < and > and of whitespace at its ends
RECURSIVE PlainTexts(_)
PlainTexts(e) ==
    /\ Strip(e.text) = e.text
    /\ \A p \in DOMAIN e.text : e.text[p] \notin {"&", "<", ">"}
    /\ \A p \in DOMAIN e.children : PlainTexts(e.children[p])

\* C37 as stated: a Dict or an Array built with append and keyed assignments,
\* every Dict of it valid, printed by tostring and parsed back with
\* validation, comes back as a tree of the same tags, texts, child order and
\* key-to-value association.
C37_RoundTripGivesEqualTree ==
    cstate \in {"rebuilt", "raised"} =>
        /\ cstate = "rebuilt"
        /\ SameTree(cfirst, csecond)

\* C37 for the trees whose texts hold no &, < or > and no whitespace at their
\* ends: the tree parsed back equals the tree printed.
C37_RoundTripOfPlainTexts ==
    (cstate \in {"rebuilt", "raised"} /\ PlainTexts(cfirst)) =>
        /\ cstate = "rebuilt"
        /\ SameTree(cfirst, csecond)

\* a Dict of two keys, one holding an Array, has been printed and parsed back
C37_Witness ==
    /\ cstate = "rebuilt"
    /\ cfirst.tag = "dict"
    /\ Len(cfirst.children) = 4
    /\ cfirst.children[4].tag = "array"
    /\ Len(csecond.children) = 4

====
